---- MODULE Spec2Model ----
(***************************************************************************)
(* Lifecycle orchestrator (InstanceManager) and state store (StateManager) *)
(* of Cloudy Pad.                                                          *)
(*                                                                         *)
(* One process drives one InstanceManager.  Every async method is split at *)
(* its awaits: pc holds the method being executed and the step inside it.  *)
(* The collaborators (Provisioner, Configurator, Runner, confirm prompt)   *)
(* are the environment: each call either returns or throws.  The file      *)
(* system calls of StateManager that change the disk either take effect or *)
(* throw and leave the disk as it was.  mkdirSync and rmSync are single    *)
(* steps; writeFileSync is two: the file is opened, which cuts it to       *)
(* length zero, and then its content is written.  The process can be       *)
(* interrupted between any two steps; a later process starts again from    *)
(* loadInstanceState.                                                      *)
(***************************************************************************)
EXTENDS Integers, Sequences, FiniteSets, TLC

\* ------------------------------------------------------------------ bounds

\* number of distinct outputs a Provisioner can return (1..MaxOutputs)
MaxOutputs == 2

\* ------------------------------------------------------------ value domains

\* JavaScript undefined, as the value of an absent provision.output
Undefined == [undefined |-> TRUE]

\* values a Provisioner can return: CommonProvisionOutputV1 with its host
Outputs == {[host |-> h] : h \in 1..MaxOutputs}

\* instance names known to the store; one of them is the managed instance
Names == {"box1", "box2"}

\* CLOUDYPAD_PROVIDER
Providers == {"aws", "paperspace"}

\* provision.input values (opaque to the orchestrator)
Inputs == {"inputA", "inputB"}

\* methods of InstanceRunner called by the manager
RunnerOps == {"start", "stop", "restart", "pair"}

\* public lifecycle methods of InstanceManager
Operations == {"initialize", "provision", "configure", "destroy"} \cup RunnerOps

VARIABLES
    state,          \* InstanceManager.state (in memory)
    dirs,           \* names whose instance directory exists on disk
    docs,           \* name -> parsed content of <dir>/config.yml, where the file exists
    pc,             \* [op, step]: method being executed and the position in it
    top,            \* the method the caller invoked ("none" before the first call)
    autoApprove,    \* opts.autoApprove of the running initialize
    trace,          \* calls made so far by the invocation named by top
    result,         \* outcome of the invocation named by top
    pre,            \* memory and disk when the invocation named by top began
    interruptedAt,  \* pc at which the process was last interrupted
    hist            \* since the state was constructed: outcome of the last provisioning
                    \* attempt, last Provisioner method that returned, last value
                    \* Provisioner.provision returned; and the state that persistState
                    \* wrote last into the state file that is on disk

\* a second process that drives an InstanceManager for the same instance
VARIABLES
    other           \* the process that is not running now: its memory and position

\* InstancePulumiClient
VARIABLES
    stack,          \* InstancePulumiClient.stack (undefined, or a Stack object)
    created,        \* number of Stack objects LocalWorkspace.createOrSelectStack returned
    calls,          \* the calls of up, preview and destroy: method, position, local stack
    engine          \* for each call, what it asked of Pulumi and how each request ended

\* CompositeEC2Instance
VARIABLES
    args,           \* the CompositeEC2InstanceArgs given to the constructor
    component       \* what the constructor has made: resources, or the error thrown

\* init_paperspace
VARIABLES
    script,         \* position in init_paperspace, its shell variables, its exit status
    effects         \* requests sent and files written by init_paperspace, in order

\* the variables of the manager and its store
managerVars == <<state, dirs, docs, pc, top, autoApprove, trace, result, pre, interruptedAt, hist>>

\* the variables of the other components: a step of the manager leaves them alone
restVars == <<other, stack, created, calls, engine, args, component, script, effects>>

vars == <<state, dirs, docs, pc, top, autoApprove, trace, result, pre, interruptedAt, hist,
          other, stack, created, calls, engine, args, component, script, effects>>

Idle == [op |-> "none", step |-> "idle"]
Dead == [op |-> "none", step |-> "dead"]
At(op, step) == pc = [op |-> op, step |-> step]

HasOutput(s) == s.provision.output # Undefined

\* there is no second process
NoProcess == [none |-> TRUE]

\* no Pulumi client, no CompositeEC2Instance and no init_paperspace are at work
NoClient == stack = Undefined /\ created = 0 /\ calls = <<>> /\ engine = <<>>
NoComponent == args = Undefined /\ component = Undefined
NoScript == script = [step |-> "none"] /\ effects = <<>>

\* ------------------------------------------------ serialization (js-yaml)

\* yaml.dump that leaves the output out of the document
DumpStateWithoutOutput(s) ==
    [name |-> s.name,
     version |-> s.version,
     provision |-> [k \in {"provider", "input"} |-> s.provision[k]]]

\* yaml.dump(state): mappings are written key by key, a key whose value is
\* undefined is left out of the document
DumpState(s) ==
    [k \in DOMAIN s |->
        IF k = "provision"
        THEN [j \in DOMAIN s.provision \ (IF HasOutput(s) THEN {} ELSE {"output"})
                |-> s.provision[j]]
        ELSE s[k]]

\* obj.k is there: a key of a parsed document whose value is an object is
\* truthy when it is there
Has(obj, k) == k \in DOMAIN obj

\* truthiness of obj.k for a key whose value is a string: the key is there and
\* the string is not empty
Truthy(obj, k) == Has(obj, k) /\ obj[k] # ""

\* yaml.load(text): the parsed object; reading the output of a provision that
\* has no such key gives undefined
yamlLoad(doc) ==
    IF Has(doc, "provision") /\ ~Has(doc.provision, "output")
    THEN [doc EXCEPT !.provision =
            [k \in DOMAIN doc.provision \cup {"output"} |->
                IF k = "output" THEN Undefined ELSE doc.provision[k]]]
    ELSE doc

\* --------------------------------------------------------- ensureStateV1

\* provider sub-objects of InstanceStateV0, in the order ensureStateV1 probes them
ProviderOrderV0 == <<"aws", "azure", "gcp", "paperspace">>

\* CLOUDYPAD_PROVIDER_AWS and CLOUDYPAD_PROVIDER_PAPERSPACE
ProviderConstant(p) ==
    CASE p = "aws" -> "aws"
      [] p = "paperspace" -> "paperspace"

\* CLOUDYPAD_PROVIDER_AZURE and CLOUDYPAD_PROVIDER_GCP, which state.ts imports
ImportedProviderConstant(p) ==
    CASE p = "azure" -> "azure"
      [] p = "gcp" -> "gcp"

\* providerName in the branch of provider sub-object p
ProviderNameV0(p) ==
    IF p \in {"aws", "paperspace"} THEN ProviderConstant(p) ELSE ImportedProviderConstant(p)

\* identifying fields ensureStateV1 requires of each provider, in the order checked
IdFieldsV0(p) ==
    CASE p = "aws" -> <<"instanceId">>
      [] p = "azure" -> <<"vmName", "resourceGroupName">>
      [] p = "gcp" -> <<"instanceName">>
      [] p = "paperspace" -> <<"machineId">>

MigrationError(kind, field) == [ok |-> FALSE, error |-> kind, field |-> field]

\* the output with the host only, the identifying fields left out
OutputV0WithoutIds(stateV0, p, pv) == [f \in {"host"} |-> stateV0.host]

\* output of the V1 state built from a V0 state: the host and the identifying
\* fields of the provider sub-object pv
OutputV0(stateV0, p, pv) ==
    LET ids == IdFieldsV0(p)
    IN  [f \in {"host"} \cup {ids[i] : i \in 1..Len(ids)} |->
            IF f = "host" THEN stateV0.host ELSE pv[f]]

\* config of the V1 state built from a V0 state: the keys of provisionArgs.create
\* spread, then (paperspace) apiKey: pv.apiKey ?? pv.provisionArgs.apiKey, then ssh
ConfigV0(stateV0, p, pv) ==
    LET create == pv.provisionArgs.create
        keys == DOMAIN create \cup {"ssh"} \cup (IF p = "paperspace" THEN {"apiKey"} ELSE {})
    IN  [k \in keys |->
            IF k = "ssh"
            THEN [user |-> stateV0.ssh.user, privateKeyPath |-> stateV0.ssh.privateKeyPath]
            ELSE IF k = "apiKey" /\ p = "paperspace"
            THEN (IF Has(pv, "apiKey") THEN pv.apiKey ELSE pv.provisionArgs.apiKey)
            ELSE create[k]]

\* StateV1FromV0 that leaves the version out of the state it builds
StateV1FromV0NoVersion(stateV0, p, pv) ==
    [name |-> stateV0.name,
     provision |->
        [provider |-> ProviderNameV0(p),
         output |-> OutputV0(stateV0, p, pv),
         config |-> ConfigV0(stateV0, p, pv)]]

\* the V1 state built in the branch of provider sub-object p
StateV1FromV0(stateV0, p, pv) ==
    [name |-> stateV0.name,
     version |-> "1",
     provision |->
        [provider |-> ProviderNameV0(p),
         output |-> OutputV0(stateV0, p, pv),
         config |-> ConfigV0(stateV0, p, pv)]]

\* the provider branch that always reports the provider's first identifying field
MigrateProviderV0NamesFirstId(stateV0, p) ==
    LET pv == stateV0.provider[p]
        ids == IdFieldsV0(p)
        missing == {i \in 1..Len(ids) : ~Truthy(pv, ids[i])}
    IN  IF ~Has(pv, "provisionArgs") \/ ~Has(pv.provisionArgs, "create")
        THEN MigrationError("MissingProvisionArgs", "provisionArgs")
        ELSE IF missing # {}
        THEN MigrationError("MissingProviderField", ids[1])
        ELSE IF p = "paperspace" /\ ~Truthy(pv, "apiKey") /\ ~Truthy(pv.provisionArgs, "apiKey")
        THEN MigrationError("MissingProviderField", "apiKey")
        ELSE [ok |-> TRUE, state |-> StateV1FromV0(stateV0, p, pv)]

\* the V0 branch of ensureStateV1 for the provider sub-object p that was found:
\* provisionArgs.create, then the identifying fields, then (paperspace) the api key
MigrateProviderV0(stateV0, p) ==
    LET pv == stateV0.provider[p]
        ids == IdFieldsV0(p)
        missing == {i \in 1..Len(ids) : ~Truthy(pv, ids[i])}
        first == CHOOSE i \in missing : \A j \in missing : i <= j
    IN  IF ~Has(pv, "provisionArgs") \/ ~Has(pv.provisionArgs, "create")
        THEN MigrationError("MissingProvisionArgs", "provisionArgs")
        ELSE IF missing # {}
        THEN MigrationError("MissingProviderField", ids[first])
        ELSE IF p = "paperspace" /\ ~Truthy(pv, "apiKey") /\ ~Truthy(pv.provisionArgs, "apiKey")
        THEN MigrationError("MissingProviderField", "apiKey")
        ELSE [ok |-> TRUE, state |-> StateV1FromV0(stateV0, p, pv)]

\* the provider sub-objects of providerV0 that are there, as positions in ProviderOrderV0
FoundProvidersV0(providerV0) ==
    {i \in 1..Len(ProviderOrderV0) : Has(providerV0, ProviderOrderV0[i])}

\* the if / else if chain over providerV0: the first sub-object that is there
\* decides the branch, whatever other sub-objects are there
FirstProviderV0(providerV0) ==
    LET found == FoundProvidersV0(providerV0)
    IN  ProviderOrderV0[CHOOSE i \in found : \A j \in found : i <= j]

\* the branch of a state with a truthy version: any version that is loosely
\* equal to "1" is returned as it is, with no check of its other keys
CheckVersionV1(rawState) ==
    IF rawState.version # "1"
    THEN MigrationError("UnknownVersion", "version")
    ELSE [ok |-> TRUE, state |-> rawState]

\* ensureStateV1(rawState): a state whose version is truthy takes the V1
\* branch; any other state is taken as a V0 state and is transformed: host,
\* then ssh, then the provider sub-object
ensureStateV1(rawState) ==
    IF Truthy(rawState, "version")
    THEN CheckVersionV1(rawState)
    ELSE IF ~Truthy(rawState, "host")
    THEN MigrationError("MissingHost", "host")
    ELSE IF ~Has(rawState, "ssh") \/ ~Truthy(rawState.ssh, "user")
                                  \/ ~Truthy(rawState.ssh, "privateKeyPath")
    THEN MigrationError("MissingSshConfig", "ssh")
    ELSE LET providerV0 == IF Has(rawState, "provider") THEN rawState.provider ELSE <<>>
         IN  IF FoundProvidersV0(providerV0) = {}
             THEN MigrationError("UnknownProvider", "provider")
             ELSE MigrateProviderV0(rawState, FirstProviderV0(providerV0))

\* ------------------------------------------------------------ StateManager

LoadError(kind, field) == [ok |-> FALSE, error |-> kind, field |-> field]

instanceExists(instanceName) == instanceName \in dirs

\* content of a state file of length zero: yaml.load gives undefined for it
EmptyFile == [empty |-> TRUE]

\* listInstances that gives every entry of the instances directory
listInstancesEveryDir == dirs

\* listInstances(): the entries of the instances directory that hold a
\* config.yml (as a set: the order is that of readdirSync); when the
\* directory cannot be read there is no entry and the result is empty
listInstances == {n \in dirs : Has(docs, n)}

\* listInstances() with its catch: when readdirSync throws, the error is logged
\* and the result is the empty list
listInstancesCaught(readdirThrows) == IF readdirThrows THEN {} ELSE listInstances

\* the value loadInstanceState returns or the error it throws, on the current
\* disk; ensureStateV1(undefined) throws a TypeError at rawState.version
LoadResult(instanceName) ==
    IF ~instanceExists(instanceName)
    THEN LoadError("InstanceNotFound", "")
    ELSE IF instanceName \notin DOMAIN docs
         THEN LoadError("ReadError", "")
         ELSE IF docs[instanceName] = EmptyFile
              THEN LoadError("TypeError", "")
              ELSE ensureStateV1(yamlLoad(docs[instanceName]))

\* the length of a state file: nothing, or the lines of the dump (a document
\* with an output is longer than the same one without)
DocLength(doc) ==
    IF doc = EmptyFile THEN 0
    ELSE LET whole == IF Has(doc, "head") THEN doc.tail ELSE doc
         IN  IF Has(whole.provision, "output") THEN 7 ELSE 5

\* the write of fs.writeFileSync, at the start of the file it has opened: on
\* a file of length zero the file is the dump; when another process has
\* written a longer content since the file was opened, the file is the dump
\* followed by the rest of that content
WriteAtStart(dump, old) ==
    IF DocLength(old) > DocLength(dump)
    THEN [head |-> dump, tail |-> IF Has(old, "head") THEN old.tail ELSE old]
    ELSE dump

\* WriteDoc as a merge: an output key of the document that was there when the
\* method began survives when the new state has none
WriteDocMerge(s) ==
    [n \in DOMAIN docs \cup {s.name} |->
        IF n # s.name THEN docs[n]
        ELSE IF Has(pre.docs, n) /\ Has(pre.docs[n], "provision")
                    /\ Has(pre.docs[n].provision, "output") /\ ~HasOutput(s)
             THEN [DumpState(s) EXCEPT !.provision =
                        [k \in {"provider", "input", "output"} |->
                            IF k = "output" THEN pre.docs[n].provision.output
                            ELSE s.provision[k]]]
             ELSE DumpState(s)]

\* WriteDoc that leaves a state file that was there when the method began as it was
WriteDocKeepsExisting(s) ==
    [n \in DOMAIN docs \cup {s.name} |->
        IF n # s.name THEN docs[n]
        ELSE IF Has(pre.docs, n) THEN pre.docs[n] ELSE DumpState(s)]

\* fs.writeFileSync(confPath, yaml.dump(state)): the whole file is replaced;
\* when another process has removed the file since it was opened, the write
\* goes to a file that has no name any more
WriteDoc(s) ==
    IF Has(docs, s.name)
    THEN [docs EXCEPT ![s.name] = WriteAtStart(DumpState(s), docs[s.name])]
    ELSE docs

\* fs.writeFileSync opens the file with flag 'w': created, or cut to length zero
TruncateDoc(instanceName) ==
    [n \in DOMAIN docs \cup {instanceName} |-> IF n = instanceName THEN EmptyFile ELSE docs[n]]

\* fs.rmSync(confDir, {recursive, force}): the directory and the file in it
RemoveDocs(instanceName) == [n \in DOMAIN docs \ {instanceName} |-> docs[n]]

Snapshot == [state |-> state, dirs |-> dirs, docs |-> docs]


\* ------------------------------------------------- control flow of a method

\* a call made by the manager: who is called, which method, and how it ended
Event(who, what, outcome) == <<who, what, outcome>>

\* the calls to the collaborators (Provisioner, Configurator, Runner) in a trace
Collab(tr) == SelectSeq(tr, LAMBDA e : e[1] \in {"Provisioner", "Configurator", "Runner"})

\* the calls to the collaborators and the writes of the state file in a trace
CallsAndWrites(tr) == SelectSeq(tr, LAMBDA e : e[2] \notin {"mkdir", "prompt"})

\* who and what of each call of a trace
Calls(tr) == [i \in 1..Len(tr) |-> <<tr[i][1], tr[i][2]>>]

IsPrefix(s, t) == Len(s) <= Len(t) /\ \A i \in 1..Len(s) : s[i] = t[i]

Goto(op, step) == pc' = [op |-> op, step |-> step]

\* the invoked method throws: the error reaches the caller
Throw(error) == pc' = Idle /\ result' = error

\* the invoked method returns to the caller
Done == pc' = Idle /\ result' = "ok"

\* the caller invokes a public method of the manager
Begin(op, first, auto) ==
    /\ pc = Idle
    /\ top' = op
    /\ autoApprove' = auto
    /\ Goto(first, "build")
    /\ trace' = <<>>
    /\ result' = "running"
    /\ pre' = Snapshot
    /\ interruptedAt' = Idle
    /\ UNCHANGED <<state, dirs, docs, hist>>
    /\ UNCHANGED restVars

\* initialize(): what follows the return of the sub-call op
\* (provision, then configure, then the pairing decision, then pair)
InitializeContinue(op) ==
    CASE op = "provision" -> Goto("configure", "build") /\ UNCHANGED result
      [] op = "configure" -> Goto("initialize", "confirm") /\ UNCHANGED result
      [] OTHER -> Done

\* return of method op: to initialize() when it made the call, else to the caller
Return(op) == IF top = "initialize" THEN InitializeContinue(op) ELSE Done

\* ------------------------------------------------ AbstractSubManagerFactory

\* buildProvisioner: no condition on the state
buildProvisioner(op) ==
    /\ At(op, "build")
    /\ Goto(op, "call")
    /\ UNCHANGED <<state, dirs, docs, top, autoApprove, trace, result, pre, interruptedAt, hist>>
    /\ UNCHANGED restVars

\* buildRunner without the check of the provision output
buildRunnerNoCheck(op) ==
    /\ At(op, "build")
    /\ Goto(op, "call")
    /\ UNCHANGED <<state, dirs, docs, top, autoApprove, trace, result, pre, interruptedAt, hist>>
    /\ UNCHANGED restVars

\* buildRunner: throws when the state has no provision output
buildRunner(op) ==
    /\ At(op, "build")
    /\ IF ~HasOutput(state) THEN Throw("NotProvisioned")
                            ELSE Goto(op, "call") /\ UNCHANGED result
    /\ UNCHANGED <<state, dirs, docs, top, autoApprove, trace, pre, interruptedAt, hist>>
    /\ UNCHANGED restVars

\* buildConfigurator without the check of the provision output
buildConfiguratorNoCheck(op) ==
    /\ At(op, "build")
    /\ Goto(op, "call")
    /\ UNCHANGED <<state, dirs, docs, top, autoApprove, trace, result, pre, interruptedAt, hist>>
    /\ UNCHANGED restVars

\* buildConfigurator: throws when the state has no provision output
buildConfigurator(op) ==
    /\ At(op, "build")
    /\ IF ~HasOutput(state) THEN Throw("NotProvisioned")
                            ELSE Goto(op, "call") /\ UNCHANGED result
    /\ UNCHANGED <<state, dirs, docs, top, autoApprove, trace, pre, interruptedAt, hist>>
    /\ UNCHANGED restVars

\* ------------------------------------------- InstanceManager.persistState

\* StateManager.ensureInstanceDirExists: mkdir when the directory is missing;
\* an error of mkdirSync is thrown on to the caller of the method
ensureInstanceDirExists(op) ==
    /\ At(op, "persist")
    /\ IF instanceExists(state.name)
       THEN Goto(op, "write") /\ UNCHANGED <<dirs, trace, result>>
       ELSE \/ /\ dirs' = dirs \cup {state.name}
               /\ trace' = Append(trace, Event("StateManager", "mkdir", "returns"))
               /\ Goto(op, "write")
               /\ UNCHANGED result
            \/ /\ trace' = Append(trace, Event("StateManager", "mkdir", "throws"))
               /\ Throw("IOError")
               /\ UNCHANGED dirs
    /\ UNCHANGED <<state, docs, top, autoApprove, pre, interruptedAt, hist>>
    /\ UNCHANGED restVars

\* StateManager.persistState after the directory check, fs.writeFileSync opens
\* the state file: the file is there with length zero, or the error of
\* writeFileSync is thrown on to the caller of the method (the only outcome
\* when another process has removed the directory in between)
openStateFile(op) ==
    /\ At(op, "write")
    /\ \/ /\ instanceExists(state.name)
          /\ docs' = TruncateDoc(state.name)
          /\ Goto(op, "flush")
          /\ UNCHANGED <<trace, result>>
       \/ /\ trace' = Append(trace, Event("StateManager", "persistState", "throws"))
          /\ Throw("IOError")
          /\ UNCHANGED docs
    /\ UNCHANGED <<state, dirs, top, autoApprove, pre, interruptedAt, hist>>
    /\ UNCHANGED restVars

\* writeState of a persistState that returns with the file left as it was opened
writeStateSkipsWrite(op) ==
    /\ At(op, "flush")
    /\ trace' = Append(trace, Event("StateManager", "persistState", "returns"))
    /\ IF op = "destroy" THEN Goto(op, "remove") /\ UNCHANGED result ELSE Return(op)
    /\ UNCHANGED <<state, dirs, docs, top, autoApprove, pre, interruptedAt, hist>>
    /\ UNCHANGED restVars

\* fs.writeFileSync writes the dump of the state into the opened file and
\* persistState returns, then method op goes on with what follows
writeState(op) ==
    /\ At(op, "flush")
    /\ docs' = WriteDoc(state)
    /\ trace' = Append(trace, Event("StateManager", "persistState", "returns"))
    /\ hist' = [hist EXCEPT !.persisted = state]
    /\ IF op = "destroy" THEN Goto(op, "remove") /\ UNCHANGED result ELSE Return(op)
    /\ UNCHANGED <<state, dirs, top, autoApprove, pre, interruptedAt>>
    /\ UNCHANGED restVars

persistState(op) == ensureInstanceDirExists(op) \/ openStateFile(op) \/ writeState(op)


\* --------------------------------------------------------- InstanceManager

\* provisionCall with the assignment of line 144 left out
provisionCallKeepsOutput ==
    /\ At("provision", "call")
    /\ \/ \E output \in Outputs :
            /\ trace' = Append(trace, Event("Provisioner", "provision", "returns"))
            /\ hist' = [hist EXCEPT !.last = "ok", !.lastOk = "provision", !.returned = output]
            /\ Goto("provision", "persist")
            /\ UNCHANGED <<state, result>>
       \/ /\ trace' = Append(trace, Event("Provisioner", "provision", "throws"))
          /\ Throw("ProvisionerError")
          /\ hist' = [hist EXCEPT !.last = "failed"]
          /\ UNCHANGED state
    /\ UNCHANGED <<dirs, docs, top, autoApprove, pre, interruptedAt>>
    /\ UNCHANGED restVars

\* provisionCall of a provision() that returns without persisting (line 145 left out)
provisionCallReturnsBeforePersist ==
    /\ At("provision", "call")
    /\ \/ \E output \in Outputs :
            /\ trace' = Append(trace, Event("Provisioner", "provision", "returns"))
            /\ state' = [state EXCEPT !.provision.output = output]
            /\ hist' = [hist EXCEPT !.last = "ok", !.lastOk = "provision", !.returned = output]
            /\ Return("provision")
       \/ /\ trace' = Append(trace, Event("Provisioner", "provision", "throws"))
          /\ Throw("ProvisionerError")
          /\ hist' = [hist EXCEPT !.last = "failed"]
          /\ UNCHANGED state
    /\ UNCHANGED <<dirs, docs, top, autoApprove, pre, interruptedAt>>
    /\ UNCHANGED restVars

\* provision(), lines 143-144: the Provisioner is called; when it returns, its
\* value replaces state.provision.output; when it throws, provision() throws
provisionCall ==
    /\ At("provision", "call")
    /\ \/ \E output \in Outputs :
            /\ trace' = Append(trace, Event("Provisioner", "provision", "returns"))
            /\ state' = [state EXCEPT !.provision.output = output]
            /\ hist' = [hist EXCEPT !.last = "ok", !.lastOk = "provision", !.returned = output]
            /\ Goto("provision", "persist")
            /\ UNCHANGED result
       \/ /\ trace' = Append(trace, Event("Provisioner", "provision", "throws"))
          /\ Throw("ProvisionerError")
          /\ hist' = [hist EXCEPT !.last = "failed"]
          /\ UNCHANGED state
    /\ UNCHANGED <<dirs, docs, top, autoApprove, pre, interruptedAt>>
    /\ UNCHANGED restVars

provision ==
    \/ Begin("provision", "provision", FALSE)
    \/ buildProvisioner("provision")
    \/ provisionCall
    \/ persistState("provision")

\* configureCall that catches the Configurator's error and goes on
configureCallSwallowsError ==
    /\ At("configure", "call")
    /\ \/ /\ trace' = Append(trace, Event("Configurator", "configure", "returns"))
          /\ Goto("configure", "persist")
          /\ UNCHANGED result
       \/ /\ trace' = Append(trace, Event("Configurator", "configure", "throws"))
          /\ Goto("configure", "persist")
          /\ UNCHANGED result
    /\ UNCHANGED <<state, dirs, docs, top, autoApprove, pre, interruptedAt, hist>>
    /\ UNCHANGED restVars

\* configureCall of a configure() that clears the output after the Configurator returned
configureCallClearsOutput ==
    /\ At("configure", "call")
    /\ \/ /\ trace' = Append(trace, Event("Configurator", "configure", "returns"))
          /\ state' = [state EXCEPT !.provision.output = Undefined]
          /\ Goto("configure", "persist")
          /\ UNCHANGED result
       \/ /\ trace' = Append(trace, Event("Configurator", "configure", "throws"))
          /\ Throw("ConfiguratorError")
          /\ UNCHANGED state
    /\ UNCHANGED <<dirs, docs, top, autoApprove, pre, interruptedAt, hist>>
    /\ UNCHANGED restVars

\* configureCall that calls the Configurator again when it threw
configureCallRetries ==
    /\ At("configure", "call")
    /\ \/ /\ trace' = Append(trace, Event("Configurator", "configure", "returns"))
          /\ Goto("configure", "persist")
          /\ UNCHANGED result
       \/ /\ trace' = Append(trace, Event("Configurator", "configure", "throws"))
          /\ Goto("configure", "call")
          /\ UNCHANGED result
    /\ UNCHANGED <<state, dirs, docs, top, autoApprove, pre, interruptedAt, hist>>
    /\ UNCHANGED restVars

\* configure(), line 137
configureCall ==
    /\ At("configure", "call")
    /\ \/ /\ trace' = Append(trace, Event("Configurator", "configure", "returns"))
          /\ Goto("configure", "persist")
          /\ UNCHANGED result
       \/ /\ trace' = Append(trace, Event("Configurator", "configure", "throws"))
          /\ Throw("ConfiguratorError")
    /\ UNCHANGED <<state, dirs, docs, top, autoApprove, pre, interruptedAt, hist>>
    /\ UNCHANGED restVars

configure ==
    \/ Begin("configure", "configure", FALSE)
    \/ buildConfigurator("configure")
    \/ configureCall
    \/ persistState("configure")

\* destroyCall with the clearing of line 151 left out
destroyCallKeepsOutput ==
    /\ At("destroy", "call")
    /\ \/ /\ trace' = Append(trace, Event("Provisioner", "destroy", "returns"))
          /\ hist' = [hist EXCEPT !.lastOk = "destroy"]
          /\ Goto("destroy", "persist")
          /\ UNCHANGED <<state, result>>
       \/ /\ trace' = Append(trace, Event("Provisioner", "destroy", "throws"))
          /\ Throw("ProvisionerError")
          /\ UNCHANGED <<state, hist>>
    /\ UNCHANGED <<dirs, docs, top, autoApprove, pre, interruptedAt>>
    /\ UNCHANGED restVars

\* destroyCall that goes on to removeInstanceDir without persisting (line 152 left out)
destroyCallSkipsPersist ==
    /\ At("destroy", "call")
    /\ \/ /\ trace' = Append(trace, Event("Provisioner", "destroy", "returns"))
          /\ state' = [state EXCEPT !.provision.output = Undefined]
          /\ hist' = [hist EXCEPT !.lastOk = "destroy"]
          /\ Goto("destroy", "remove")
          /\ UNCHANGED result
       \/ /\ trace' = Append(trace, Event("Provisioner", "destroy", "throws"))
          /\ Throw("ProvisionerError")
          /\ UNCHANGED <<state, hist>>
    /\ UNCHANGED <<dirs, docs, top, autoApprove, pre, interruptedAt>>
    /\ UNCHANGED restVars

\* destroyCall of a destroy() that goes on to remove the directory when the
\* Provisioner threw
destroyCallRemovesOnFailure ==
    /\ At("destroy", "call")
    /\ \/ /\ trace' = Append(trace, Event("Provisioner", "destroy", "returns"))
          /\ state' = [state EXCEPT !.provision.output = Undefined]
          /\ hist' = [hist EXCEPT !.lastOk = "destroy"]
          /\ Goto("destroy", "persist")
          /\ UNCHANGED result
       \/ /\ trace' = Append(trace, Event("Provisioner", "destroy", "throws"))
          /\ Goto("destroy", "remove")
          /\ UNCHANGED <<state, hist, result>>
    /\ UNCHANGED <<dirs, docs, top, autoApprove, pre, interruptedAt>>
    /\ UNCHANGED restVars

\* destroyCall that resets the input together with the output
destroyCallClearsInput ==
    /\ At("destroy", "call")
    /\ \/ /\ trace' = Append(trace, Event("Provisioner", "destroy", "returns"))
          /\ state' = [state EXCEPT !.provision.output = Undefined, !.provision.input = "none"]
          /\ hist' = [hist EXCEPT !.lastOk = "destroy"]
          /\ Goto("destroy", "persist")
          /\ UNCHANGED result
       \/ /\ trace' = Append(trace, Event("Provisioner", "destroy", "throws"))
          /\ Throw("ProvisionerError")
          /\ UNCHANGED <<state, hist>>
    /\ UNCHANGED <<dirs, docs, top, autoApprove, pre, interruptedAt>>
    /\ UNCHANGED restVars

\* destroy(), lines 150-151: the Provisioner destroys; when it returns, the
\* output is cleared; when it throws, destroy() throws
destroyCall ==
    /\ At("destroy", "call")
    /\ \/ /\ trace' = Append(trace, Event("Provisioner", "destroy", "returns"))
          /\ state' = [state EXCEPT !.provision.output = Undefined]
          /\ hist' = [hist EXCEPT !.lastOk = "destroy"]
          /\ Goto("destroy", "persist")
          /\ UNCHANGED result
       \/ /\ trace' = Append(trace, Event("Provisioner", "destroy", "throws"))
          /\ Throw("ProvisionerError")
          /\ UNCHANGED <<state, hist>>
    /\ UNCHANGED <<dirs, docs, top, autoApprove, pre, interruptedAt>>
    /\ UNCHANGED restVars

\* removeInstanceDir that returns with the directory left in place
removeInstanceDirKeepsDir ==
    /\ At("destroy", "remove")
    /\ \/ /\ trace' = Append(trace, Event("StateManager", "removeInstanceDir", "returns"))
          /\ Done
       \/ /\ trace' = Append(trace, Event("StateManager", "removeInstanceDir", "throws"))
          /\ Throw("IOError")
    /\ UNCHANGED <<state, dirs, docs, top, autoApprove, pre, interruptedAt, hist>>
    /\ UNCHANGED restVars

\* destroy(), line 153: StateManager.removeInstanceDir, the last statement; an
\* error of rmSync is thrown on to the caller of destroy()
removeInstanceDir ==
    /\ At("destroy", "remove")
    /\ \/ /\ dirs' = dirs \ {state.name}
          /\ docs' = RemoveDocs(state.name)
          /\ trace' = Append(trace, Event("StateManager", "removeInstanceDir", "returns"))
          /\ hist' = [hist EXCEPT !.persisted = Undefined]
          /\ Done
       \/ /\ trace' = Append(trace, Event("StateManager", "removeInstanceDir", "throws"))
          /\ Throw("IOError")
          /\ UNCHANGED <<dirs, docs, hist>>
    /\ UNCHANGED <<state, top, autoApprove, pre, interruptedAt>>
    /\ UNCHANGED restVars

destroy ==
    \/ Begin("destroy", "destroy", FALSE)
    \/ buildProvisioner("destroy")
    \/ destroyCall
    \/ persistState("destroy")
    \/ removeInstanceDir

\* runnerCall that catches the Runner's error and goes on
runnerCallSwallowsError(op) ==
    /\ At(op, "call")
    /\ \/ /\ trace' = Append(trace, Event("Runner", op, "returns"))
          /\ Goto(op, "persist")
          /\ UNCHANGED result
       \/ /\ trace' = Append(trace, Event("Runner", op, "throws"))
          /\ Goto(op, "persist")
          /\ UNCHANGED result
    /\ UNCHANGED <<state, dirs, docs, top, autoApprove, pre, interruptedAt, hist>>
    /\ UNCHANGED restVars

\* runnerCall that calls Runner.start whatever the method
runnerCallOfStart(op) ==
    /\ At(op, "call")
    /\ \/ /\ trace' = Append(trace, Event("Runner", "start", "returns"))
          /\ Goto(op, "persist")
          /\ UNCHANGED result
       \/ /\ trace' = Append(trace, Event("Runner", "start", "throws"))
          /\ Throw("RunnerError")
    /\ UNCHANGED <<state, dirs, docs, top, autoApprove, pre, interruptedAt, hist>>
    /\ UNCHANGED restVars

\* start(), stop(), restart(), pair(): the Runner method of the same name
runnerCall(op) ==
    /\ At(op, "call")
    /\ \/ /\ trace' = Append(trace, Event("Runner", op, "returns"))
          /\ Goto(op, "persist")
          /\ UNCHANGED result
       \/ /\ trace' = Append(trace, Event("Runner", op, "throws"))
          /\ Throw("RunnerError")
    /\ UNCHANGED <<state, dirs, docs, top, autoApprove, pre, interruptedAt, hist>>
    /\ UNCHANGED restVars

start ==
    \/ Begin("start", "start", FALSE)
    \/ buildRunner("start")
    \/ runnerCall("start")
    \/ persistState("start")

stop ==
    \/ Begin("stop", "stop", FALSE)
    \/ buildRunner("stop")
    \/ runnerCall("stop")
    \/ persistState("stop")

restart ==
    \/ Begin("restart", "restart", FALSE)
    \/ buildRunner("restart")
    \/ runnerCall("restart")
    \/ persistState("restart")

pair ==
    \/ Begin("pair", "pair", FALSE)
    \/ buildRunner("pair")
    \/ runnerCall("pair")
    \/ persistState("pair")

\* pairingDecision with doPair false under opts.autoApprove
pairingDecisionSkipsOnAutoApprove ==
    /\ At("initialize", "confirm")
    /\ \/ /\ autoApprove
          /\ Done
          /\ UNCHANGED trace
       \/ /\ ~autoApprove
          /\ \E answer \in BOOLEAN :
                /\ trace' = Append(trace, Event("confirm", "prompt", IF answer THEN "yes" ELSE "no"))
                /\ IF answer THEN Goto("pair", "build") /\ UNCHANGED result
                             ELSE Done
    /\ UNCHANGED <<state, dirs, docs, top, autoApprove, pre, interruptedAt, hist>>
    /\ UNCHANGED restVars

\* initialize(), lines 119-132: doPair is true under opts.autoApprove, else the
\* answer of the confirm prompt; pair() is called when doPair is true
pairingDecision ==
    /\ At("initialize", "confirm")
    /\ \/ /\ autoApprove
          /\ Goto("pair", "build")
          /\ UNCHANGED <<trace, result>>
       \/ /\ ~autoApprove
          /\ \E answer \in BOOLEAN :
                /\ trace' = Append(trace, Event("confirm", "prompt", IF answer THEN "yes" ELSE "no"))
                /\ IF answer THEN Goto("pair", "build") /\ UNCHANGED result
                             ELSE Done
    /\ UNCHANGED <<state, dirs, docs, top, autoApprove, pre, interruptedAt, hist>>
    /\ UNCHANGED restVars

\* initialize(opts) begins with provision(opts); its sub-calls run as the
\* steps of provision, configure and pair and come back through Return
initialize ==
    \/ \E auto \in BOOLEAN : Begin("initialize", "provision", auto)
    \/ pairingDecision

\* ---------------------------------------------------------------- process

\* the process is killed while a method is running: memory is lost, the disk stays
Interrupt ==
    /\ pc.step \notin {"idle", "dead"}
    /\ interruptedAt' = pc
    /\ pc' = Dead
    /\ result' = "interrupted"
    /\ UNCHANGED <<state, dirs, docs, top, autoApprove, trace, pre, hist>>
    /\ UNCHANGED restVars

\* state.provision.output as the next manager will read it from a loaded state
LoadedOutput(s) ==
    IF Has(s, "provision") /\ Has(s.provision, "output") THEN s.provision.output ELSE Undefined

\* loadInstanceState that writes the state it returns back to the state file
loadInstanceStateWritesBack ==
    /\ pc.step \in {"idle", "dead"}
    /\ top' = "loadInstanceState"
    /\ trace' = <<>>
    /\ pre' = Snapshot
    /\ LET loaded == LoadResult(state.name)
       IN  IF loaded.ok
           THEN /\ state' = loaded.state
                /\ pc' = Idle
                /\ result' = "ok"
                /\ docs' = [docs EXCEPT ![state.name] = DumpState(loaded.state)]
                /\ hist' = IF LoadedOutput(loaded.state) # Undefined
                           THEN [hist EXCEPT !.last = "ok", !.lastOk = "provision",
                                             !.returned = LoadedOutput(loaded.state)]
                           ELSE [hist EXCEPT !.last = "none", !.lastOk = "none",
                                             !.returned = Undefined]
           ELSE /\ result' = loaded.error
                /\ UNCHANGED <<state, pc, hist, docs>>
    /\ UNCHANGED <<dirs, autoApprove, interruptedAt>>
    /\ UNCHANGED restVars

\* StateManager.loadInstanceState(name) at the start of a CLI invocation; the
\* state it returns is the one the next InstanceManager is constructed with
loadInstanceState ==
    /\ pc.step \in {"idle", "dead"}
    /\ top' = "loadInstanceState"
    /\ trace' = <<>>
    /\ pre' = Snapshot
    /\ LET loaded == LoadResult(state.name)
       IN  IF loaded.ok
           THEN /\ state' = loaded.state
                /\ pc' = Idle
                /\ result' = "ok"
                /\ hist' = IF LoadedOutput(loaded.state) # Undefined
                           THEN [hist EXCEPT !.last = "ok", !.lastOk = "provision",
                                             !.returned = LoadedOutput(loaded.state)]
                           ELSE [hist EXCEPT !.last = "none", !.lastOk = "none",
                                             !.returned = Undefined]
           ELSE /\ result' = loaded.error
                /\ UNCHANGED <<state, pc, hist>>
    /\ UNCHANGED <<dirs, docs, autoApprove, interruptedAt>>
    /\ UNCHANGED restVars

\* ----------------------------------------------------------- specification

\* a state as the CLI creates it for a new instance: no output yet
NewState(name, provider, input) ==
    [name |-> name,
     version |-> "1",
     provision |-> [provider |-> provider, input |-> input, output |-> Undefined]]

\* the manager is constructed with a new state that is either only in memory
\* or already persisted; the store may hold another, provisioned instance
Init ==
    \E name \in Names, provider \in Providers, input \in Inputs,
       persisted \in BOOLEAN, others \in SUBSET Names :
        /\ name \notin others
        /\ state = NewState(name, provider, input)
        /\ dirs = others \cup (IF persisted THEN {name} ELSE {})
        /\ docs = [n \in dirs |->
                    IF n = name THEN DumpState(state)
                    ELSE DumpState([NewState(n, provider, input)
                                        EXCEPT !.provision.output = [host |-> 1]])]
        /\ pc = Idle
        /\ top = "none"
        /\ autoApprove = FALSE
        /\ trace = <<>>
        /\ result = "none"
        /\ pre = Snapshot
        /\ interruptedAt = Idle
        /\ hist = [last |-> "none", lastOk |-> "none", returned |-> Undefined,
                   persisted |-> IF persisted THEN state ELSE Undefined]
        /\ other = NoProcess /\ NoClient /\ NoComponent /\ NoScript

Next ==
    \/ initialize
    \/ provision
    \/ configure
    \/ destroy
    \/ start
    \/ stop
    \/ restart
    \/ pair
    \/ Interrupt
    \/ loadInstanceState

Spec == Init /\ [][Next]_vars

\* ------------------------------------------ two processes on one instance

\* the memory and the position of the process that is running
Context(id) ==
    [id |-> id, state |-> state, pc |-> pc, top |-> top, autoApprove |-> autoApprove,
     trace |-> trace, result |-> result, pre |-> pre, interruptedAt |-> interruptedAt,
     hist |-> hist]

\* the operating system goes from one process to the other between two steps:
\* the steps of the two managers interleave in any order on the one disk
Switch ==
    /\ other # NoProcess
    /\ other' = Context(3 - other.id)
    /\ state' = other.state
    /\ pc' = other.pc
    /\ top' = other.top
    /\ autoApprove' = other.autoApprove
    /\ trace' = other.trace
    /\ result' = other.result
    /\ pre' = other.pre
    /\ interruptedAt' = other.interruptedAt
    /\ hist' = other.hist
    /\ UNCHANGED <<dirs, docs>>
    /\ UNCHANGED <<stack, created, calls, engine, args, component, script, effects>>

\* the process that is running has not called a method yet, or is inside one
OneCall == pc = Idle => top = "none"

\* the instance the two processes manage
SharedName == "box1"

\* two processes have loaded the persisted state of the same instance,
\* provisioned or not, and each holds an InstanceManager for it
TwoInit ==
    \E output \in Outputs \cup {Undefined} :
        /\ state = [NewState(SharedName, "aws", "inputA") EXCEPT !.provision.output = output]
        /\ dirs = {SharedName}
        /\ docs = [n \in dirs |-> DumpState(state)]
        /\ pc = Idle
        /\ top = "none"
        /\ autoApprove = FALSE
        /\ trace = <<>>
        /\ result = "none"
        /\ pre = Snapshot
        /\ interruptedAt = Idle
        /\ hist = [last |-> "none", lastOk |-> "none", returned |-> output,
                   persisted |-> state]
        /\ other = Context(2)
        /\ NoClient /\ NoComponent /\ NoScript

\* each process calls provision() or destroy() once; their steps interleave
TwoNext ==
    \/ OneCall /\ provision
    \/ OneCall /\ destroy
    \/ Switch

TwoSpec == TwoInit /\ [][TwoNext]_vars

\* ----------------------------------------------------- InstancePulumiClient

\* calls of up, preview and destroy made on one client
MaxCalls == 2

\* the public methods of the client that run the engine
ClientMethods == {"up", "preview", "destroy"}

\* what a method asks of the engine once the stack is cancelled: up and
\* preview one operation, destroy a refresh and then the destroy
EngineOps == {"up", "preview", "refresh", "destroy"}

\* the n-th Stack object that LocalWorkspace.createOrSelectStack has returned
StackObject(n) == [object |-> n]

\* a request made by call c on the Stack object s, and how it went on
Request(c, s, what, phase) == [call |-> c, stack |-> s, what |-> what, phase |-> phase]

\* call c has made the requests, in this order
Requested(c, requests) == engine' = [engine EXCEPT ![c] = @ \o requests]

\* call c goes on to step, with the Stack object it holds
Resume(c, step, s) == calls' = [calls EXCEPT ![c].step = step, ![c].stack = s]

\* an awaited request of call c throws: the method throws, the call is over
Rejects(c, what) ==
    /\ Requested(c, <<Request(c, calls[c].stack, what, "throws")>>)
    /\ Resume(c, "failed", calls[c].stack)

\* up(), preview() or destroy() is called, lines 559, 582 and 602: getStack
\* runs up to its first await. With this.stack undefined it calls initStack,
\* whose check of this.stack passes and which asks for the stack
\* (createOrSelectStack); else it returns this.stack
callClient(method) ==
    /\ Len(calls) < MaxCalls
    /\ IF stack = Undefined
       THEN /\ calls' = Append(calls, [method |-> method, step |-> "initStack", stack |-> Undefined])
            /\ engine' = Append(engine,
                    <<Request(Len(calls) + 1, Undefined, "createOrSelectStack", "starts")>>)
       ELSE /\ calls' = Append(calls, [method |-> method, step |-> "getStack", stack |-> stack])
            /\ engine' = Append(engine, <<>>)
    /\ UNCHANGED <<stack, created>>
    /\ UNCHANGED <<managerVars, other, args, component, script, effects>>

\* initStack, line 553, and getStack, lines 502-504: createOrSelectStack gives
\* a new Stack object, getStack assigns it to this.stack and returns
\* this.stack; or createOrSelectStack throws
createOrSelectStackEnds(c) ==
    /\ calls[c].step = "initStack"
    /\ \/ /\ created' = created + 1
          /\ stack' = StackObject(created + 1)
          /\ Requested(c,
                <<Request(c, StackObject(created + 1), "createOrSelectStack", "returns")>>)
          /\ Resume(c, "getStack", StackObject(created + 1))
       \/ /\ Rejects(c, "createOrSelectStack")
          /\ UNCHANGED <<stack, created>>
    /\ UNCHANGED <<managerVars, other, args, component, script, effects>>

\* the method goes on after `await this.getStack()`: up and preview ask for
\* the configuration of the stack (lines 562, 585), destroy cancels (line 608)
getStackReturns(c) ==
    /\ calls[c].step = "getStack"
    /\ IF calls[c].method = "destroy"
       THEN /\ Requested(c, <<Request(c, calls[c].stack, "cancel", "starts")>>)
            /\ Resume(c, "cancel", calls[c].stack)
       ELSE /\ Requested(c, <<Request(c, calls[c].stack, "getAllConfig", "starts")>>)
            /\ Resume(c, "getAllConfig", calls[c].stack)
    /\ UNCHANGED <<stack, created>>
    /\ UNCHANGED <<managerVars, other, args, component, script, effects>>

\* getAllConfigEnds of an up and a preview that start their engine operation
\* with no cancel before it
getAllConfigEndsSkipsCancel(c) ==
    /\ calls[c].step = "getAllConfig"
    /\ \/ /\ Requested(c,
                <<Request(c, calls[c].stack, "getAllConfig", "returns"),
                  Request(c, calls[c].stack, calls[c].method, "starts")>>)
          /\ Resume(c, calls[c].method, calls[c].stack)
       \/ Rejects(c, "getAllConfig")
    /\ UNCHANGED <<stack, created>>
    /\ UNCHANGED <<managerVars, other, args, component, script, effects>>

\* up and preview, lines 562-568 and 585-591: the configuration is there and
\* the method cancels the stack; or getAllConfig throws
getAllConfigEnds(c) ==
    /\ calls[c].step = "getAllConfig"
    /\ \/ /\ Requested(c,
                <<Request(c, calls[c].stack, "getAllConfig", "returns"),
                  Request(c, calls[c].stack, "cancel", "starts")>>)
          /\ Resume(c, "cancel", calls[c].stack)
       \/ Rejects(c, "getAllConfig")
    /\ UNCHANGED <<stack, created>>
    /\ UNCHANGED <<managerVars, other, args, component, script, effects>>

\* what the method of call c runs when its cancel has returned
AfterCancel(method) == IF method = "destroy" THEN "refresh" ELSE method

\* lines 568-570, 591-593 and 608-612: `await stack.cancel()` returns and the
\* method starts its engine operation; or cancel throws
cancelEnds(c) ==
    /\ calls[c].step = "cancel"
    /\ \/ /\ Requested(c,
                <<Request(c, calls[c].stack, "cancel", "returns"),
                  Request(c, calls[c].stack, AfterCancel(calls[c].method), "starts")>>)
          /\ Resume(c, AfterCancel(calls[c].method), calls[c].stack)
       \/ Rejects(c, "cancel")
    /\ UNCHANGED <<stack, created>>
    /\ UNCHANGED <<managerVars, other, args, component, script, effects>>

\* the engine operation of call c returns: up goes on to stack.outputs()
\* (line 574), preview returns (line 597), the refresh of destroy is followed
\* by the stack destroy (line 615) and the stack destroy ends the method; or
\* the operation throws
engineOpEnds(c) ==
    /\ calls[c].step \in EngineOps
    /\ \/ /\ LET what == calls[c].step
                 then == CASE what = "up" -> "outputs"
                           [] what = "refresh" -> "destroy"
                           [] OTHER -> "done"
             IN  /\ Requested(c,
                        <<Request(c, calls[c].stack, what, "returns")>>
                        \o (IF then = "done" THEN <<>>
                            ELSE <<Request(c, calls[c].stack, then, "starts")>>))
                 /\ Resume(c, then, calls[c].stack)
       \/ Rejects(c, calls[c].step)
    /\ UNCHANGED <<stack, created>>
    /\ UNCHANGED <<managerVars, other, args, component, script, effects>>

\* up, lines 574-578: the outputs are there and up returns them typed; or
\* stack.outputs() throws
outputsEnds(c) ==
    /\ calls[c].step = "outputs"
    /\ \/ /\ Requested(c, <<Request(c, calls[c].stack, "outputs", "returns")>>)
          /\ Resume(c, "done", calls[c].stack)
       \/ Rejects(c, "outputs")
    /\ UNCHANGED <<stack, created>>
    /\ UNCHANGED <<managerVars, other, args, component, script, effects>>

\* the manager is not part of the runs of the client
NoManager ==
    /\ state = Undefined /\ dirs = {} /\ docs = <<>> /\ pc = Dead /\ top = "none"
    /\ autoApprove = FALSE /\ trace = <<>> /\ result = "none" /\ pre = Undefined
    /\ interruptedAt = Idle /\ hist = Undefined /\ other = NoProcess

\* ---------------------------------------------------------------------------
\* CompositeEC2Instance: the Pulumi component made of an EC2 instance, its
\* security group, key pair, optional elastic IP and optional DNS records.
\* `args` are the constructor's arguments (an optional key that is not passed
\* is not in the record), `component` is what the constructor leaves: whether
\* it threw, the resources registered until then, and ipAddress.
\* ---------------------------------------------------------------------------

\* the records with key k set to one of vals, and the one without the key
Optional(k, vals) == {<<>>} \cup {[x \in {k} |-> v] : v \in vals}

\* args.dns.records: two records of the caller's
DnsRecords ==
    LET r1 == [fqdn |-> "a.example.com", ttl |-> 60, type |-> "A"]
        r2 == [fqdn |-> "b.example.com", ttl |-> 300, type |-> "CNAME"]
    IN  {<<>>, <<r1>>, <<r1, r2>>}

\* args.dns: zoneId, zoneName and records are optional; a string passed can be
\* the empty string
DnsArgs ==
    {id @@ zoneName @@ records :
        id \in Optional("zoneId", {"", "Z1"}),
        zoneName \in Optional("zoneName", {"", "example.com"}),
        records \in Optional("records", DnsRecords)}

\* the arguments of CompositeEC2Instance that the constructor branches on: dns
\* and network are optional, network.staticIpEnable is not
CompositeEC2InstanceArgs ==
    {dns @@ network :
        dns \in Optional("dns", DnsArgs),
        network \in Optional("network", {[staticIpEnable |-> TRUE], [staticIpEnable |-> FALSE]})}

Resource(type, name) == [type |-> type, name |-> name]

\* the test before the zone lookup: !args.dns.zoneId || !args.dns.zoneName
DnsCheckThrows(dns) == ~Truthy(dns, "zoneId") \/ ~Truthy(dns, "zoneName")

\* the Record resources: one for each of args.dns.records when the array is
\* passed (none for an empty array), else one named after the zone
DnsResources(dns) ==
    IF Has(dns, "records")
    THEN [i \in 1..Len(dns.records) |->
            Resource("route53.Record", dns.records[i].fqdn)]
    ELSE <<Resource("route53.Record", "zone.name")>>

\* new CompositeEC2Instance(name, args): security group, key pair and instance,
\* the elastic IP when args.network.staticIpEnable, then the DNS part when
\* args.dns is passed; a throw leaves the resources registered before it
Construct(a) ==
    LET staticIp == Has(a, "network") /\ a.network.staticIpEnable
        base == <<Resource("ec2.SecurityGroup", "sg"), Resource("ec2.KeyPair", "keypair"),
                  Resource("ec2.Instance", "instance")>>
        withIp == IF staticIp
                  THEN base \o <<Resource("ec2.Eip", "eip"), Resource("ec2.EipAssociation", "eipAssoc")>>
                  ELSE base
        ip == IF staticIp THEN "eip.publicIp" ELSE "ec2Instance.publicIp"
    IN  IF ~Has(a, "dns")
        THEN [threw |-> FALSE, ipAddress |-> ip, resources |-> withIp, zone |-> "none"]
        ELSE IF DnsCheckThrows(a.dns)
        THEN [threw |-> TRUE, ipAddress |-> ip, resources |-> withIp, zone |-> "none"]
        ELSE [threw |-> FALSE, ipAddress |-> ip,
              resources |-> withIp \o DnsResources(a.dns),
              zone |-> IF Truthy(a.dns, "zoneId") THEN "zoneId" ELSE "zoneName"]

\* the constructor runs on the arguments passed
CompositeEC2Instance ==
    /\ component = Undefined
    /\ component' = Construct(args)
    /\ UNCHANGED <<managerVars, other, stack, created, calls, engine, args, script, effects>>

\* a program about to construct one component from some arguments
ComponentInit ==
    /\ args \in CompositeEC2InstanceArgs
    /\ component = Undefined
    /\ NoManager /\ NoClient /\ NoScript

ComponentNext == CompositeEC2Instance

ComponentSpec == ComponentInit /\ [][ComponentNext]_vars

\* ---------------------------------------------------------------------------
\* init_paperspace (cli-sh/paperspace.sh): the shell function that sets up a
\* Paperspace machine for an instance. `script` holds the position in the
\* function and its shell variables, `effects` is the log of what the function
\* has done to the outside, in order: the answers it read, the pspace and API
\* requests it made with their results, the directory and the inventory it
\* wrote. The function is sequential; what varies is the machine choice, the
\* user's answers and the results of the requests.
\* ---------------------------------------------------------------------------

\* $CLOUDYPAD_INIT_USE_EXISTING and $CLOUDYPAD_INIT_CREATE (two different
\* words set by the caller), and a choice that is neither
UseExisting == "USE_EXISTING"

Create == "CREATE"

MachineChoices == {UseExisting, Create, "other"}

\* what a user can type at a (y/N) prompt; read gives "" at a bare enter and
\* at the end of input
Answers == {"y", "Y", "n", "N", "", "yes"}

Yes == {"y", "Y"}

\* results of `pspace machine list --json | jq .items[].id -r`
MachineLists == {<<>>, <<"ps1">>, <<"ps1", "ps2">>}

\* results of `jq .data.id -r` on the answer to the creation request: nothing
\* (no answer, or one that is not JSON), null (no data.id), or an id
CreatedIds == {"", "null", "ps9"}

\* the choices offered by the prompts of the create path
MachineTypes == {"P4000", "P5000"}

PublicIpTypes == {"static", "dynamic"}

DiskSizes == {50, 100}

\* publicIp of `pspace machine get`
PublicIps == {"1.2.3.4", "null"}

\* `exit n` at a line of the function ends the whole script
Exit(n, line) == [code |-> n, line |-> line]

Running == Undefined

\* the function moves to a step, or sets shell variables on the way
ScriptAt(step) == [script EXCEPT !.step = step]

ScriptExits(n, line) == [script EXCEPT !.step = "exited", !.exit = Exit(n, line)]

Effect(what, value) == [what |-> what, value |-> value]

Did(what, value) == effects' = Append(effects, Effect(what, value))

OtherComponents == <<managerVars, other, stack, created, calls, engine, args, component>>

\* lines 3-13: the notice about SSH keys, read "Press enter continue..."
pressEnter ==
    /\ script.step = "start"
    /\ script' = ScriptAt("login")
    /\ Did("read", "Press enter")
    /\ UNCHANGED OtherComponents

\* line 15: check_paperspace_login, a function of another file of the CLI,
\* returns or ends the script
check_paperspace_login ==
    /\ script.step = "login"
    /\ \/ script' = ScriptAt("case")
       \/ script' = ScriptExits(1, 15)
    /\ Did("check_paperspace_login", "")
    /\ UNCHANGED OtherComponents

\* lines 22-33: use an existing machine: list the machines, exit 7 when there
\* is none
listMachines ==
    /\ script.step = "case" /\ script.choice = UseExisting
    /\ \E list \in MachineLists :
        /\ Did("pspace machine list", list)
        /\ script' = IF list = <<>> THEN ScriptExits(7, 32)
                     ELSE [ScriptAt("choose") EXCEPT !.machine_list = list]
    /\ UNCHANGED OtherComponents

\* line 35: prompt_choice "Choose a machine" gives one of the machines listed
chooseMachine ==
    /\ script.step = "choose"
    /\ \E i \in 1..Len(script.machine_list) :
        /\ script' = [ScriptAt("get") EXCEPT !.paperspace_machine_id = script.machine_list[i]]
        /\ Did("read", script.machine_list[i])
    /\ UNCHANGED OtherComponents

\* lines 38-79: create a machine: the prompts for type, public IP type, region
\* (one region here) and disk size, and the summary of what will be created
createPrompts ==
    /\ script.step = "case" /\ script.choice = Create
    /\ \E type \in MachineTypes, ip \in PublicIpTypes, size \in DiskSizes :
        /\ script' = [ScriptAt("createConfirm") EXCEPT
                        !.machine = [type |-> type, publicIpType |-> ip, diskSize |-> size]]
        /\ Did("read", [type |-> type, publicIpType |-> ip, diskSize |-> size])
    /\ UNCHANGED OtherComponents

\* lines 81-85: read "Continue? (y/N): "; exit 8 unless the answer is y or Y
createConfirm ==
    /\ script.step = "createConfirm"
    /\ \E answer \in Answers :
        /\ Did("read Continue?", answer)
        /\ script' = IF answer \notin Yes THEN ScriptExits(8, 84) ELSE ScriptAt("create")
    /\ UNCHANGED OtherComponents

\* lines 101-119: POST https://api.paperspace.com/v1/machines, the machine id
\* is .data.id of the answer
createRequest ==
    /\ script.step = "create"
    /\ \E id \in CreatedIds :
        /\ Did("POST /v1/machines", id)
        /\ script' = [ScriptAt("checkMachineId") EXCEPT !.paperspace_machine_id = id]
    /\ UNCHANGED OtherComponents

\* lines 121-131: exit 1 when the machine id is empty or "null"
checkMachineId ==
    /\ script.step = "checkMachineId"
    /\ script' = IF script.paperspace_machine_id \in {"", "null"}
                 THEN ScriptExits(1, 127) ELSE ScriptAt("get")
    /\ UNCHANGED <<effects, OtherComponents>>

\* lines 133-136: any other machine choice: exit 5
unknownChoice ==
    /\ script.step = "case" /\ script.choice \notin {UseExisting, Create}
    /\ script' = ScriptExits(5, 135)
    /\ UNCHANGED <<effects, OtherComponents>>

\* lines 139-156: pspace machine get, the host is its publicIp
machineGet ==
    /\ script.step = "get"
    /\ \E ip \in PublicIps :
        /\ Did("pspace machine get", ip)
        /\ script' = [ScriptAt("installConfirm") EXCEPT !.cloudypad_instance_host = ip]
    /\ UNCHANGED OtherComponents

\* the configuration goes on whatever the answer is
installConfirmAcceptsAny ==
    /\ script.step = "installConfirm"
    /\ \E answer \in Answers :
        /\ Did("read Do you want to continue?", answer)
        /\ script' = ScriptAt("mkdir")
    /\ UNCHANGED OtherComponents

\* lines 158-164: read "Do you want to continue? (y/N): "; exit 0 unless the
\* answer is y or Y
installConfirm ==
    /\ script.step = "installConfirm"
    /\ \E answer \in Answers :
        /\ Did("read Do you want to continue?", answer)
        /\ script' = IF answer \notin Yes THEN ScriptExits(0, 163) ELSE ScriptAt("mkdir")
    /\ UNCHANGED OtherComponents

\* line 166: mkdir -p of the instance directory
mkdirInstanceDir ==
    /\ script.step = "mkdir"
    /\ Did("mkdir -p", script.cloudypad_instance_name)
    /\ script' = ScriptAt("inventory")
    /\ UNCHANGED OtherComponents

\* line 168: init_ansible_inventory with name, host, user, "paperspace" and
\* the machine id; the function returns
init_ansible_inventory ==
    /\ script.step = "inventory"
    /\ Did("init_ansible_inventory",
           [name |-> script.cloudypad_instance_name, host |-> script.cloudypad_instance_host,
            user |-> "paperspace", id |-> script.paperspace_machine_id])
    /\ script' = ScriptAt("returned")
    /\ UNCHANGED OtherComponents

\* init_paperspace <name> <choice> is called; shell variables not yet set are
\* empty
ScriptInit ==
    /\ \E choice \in MachineChoices :
        script = [step |-> "start", exit |-> Running, choice |-> choice,
                  cloudypad_instance_name |-> "box1", machine_list |-> <<>>,
                  machine |-> Undefined, paperspace_machine_id |-> "",
                  cloudypad_instance_host |-> ""]
    /\ effects = <<>>
    /\ NoManager /\ NoClient /\ NoComponent

ScriptNext ==
    \/ pressEnter
    \/ check_paperspace_login
    \/ listMachines
    \/ chooseMachine
    \/ createPrompts
    \/ createConfirm
    \/ createRequest
    \/ checkMachineId
    \/ unknownChoice
    \/ machineGet
    \/ installConfirm
    \/ mkdirInstanceDir
    \/ init_ansible_inventory

ScriptSpec == ScriptInit /\ [][ScriptNext]_vars

\* a client as its constructor leaves it: this.stack is undefined
ClientInit == NoClient /\ NoManager /\ NoComponent /\ NoScript

\* the calls of one client: a call can begin while an earlier one is awaiting
ClientNext ==
    \/ \E method \in ClientMethods : callClient(method)
    \/ \E c \in 1..Len(calls) : createOrSelectStackEnds(c)
    \/ \E c \in 1..Len(calls) : getStackReturns(c)
    \/ \E c \in 1..Len(calls) : getAllConfigEnds(c)
    \/ \E c \in 1..Len(calls) : cancelEnds(c)
    \/ \E c \in 1..Len(calls) : engineOpEnds(c)
    \/ \E c \in 1..Len(calls) : outputsEnds(c)

ClientSpec == ClientInit /\ [][ClientNext]_vars

\* ------------------------------------------- state files read at a load

\* the record r restricted to the keys in keys
Restrict(r, keys) == [k \in keys |-> r[k]]

\* the name of the instance whose state file is loaded
LoadedName == "box1"

\* provisionArgs of a provider sub-object of InstanceStateV0: with create, and
\* without (another key only); for paperspace also with apiKey
ProvisionArgsV0(p) ==
    LET whole == [create |-> [instanceType |-> "small"], skipAuthCheck |-> "true", apiKey |-> "key"]
    IN  {Restrict(whole, {"create"}), Restrict(whole, {"skipAuthCheck"})}
        \cup (IF p = "paperspace"
              THEN {Restrict(whole, {"create", "apiKey"}), Restrict(whole, {"skipAuthCheck", "apiKey"})}
              ELSE {})

\* a provider sub-object with every key the interface of provider p has
WholeProviderV0(p, provisionArgs) ==
    [instanceId |-> "i-1", vmName |-> "vm1", resourceGroupName |-> "rg1",
     instanceName |-> "gce1", machineId |-> "m1", apiKey |-> "key", provisionArgs |-> provisionArgs]

\* the keys a provider sub-object of provider p can have besides provisionArgs
ProviderKeysV0(p) ==
    {IdFieldsV0(p)[i] : i \in 1..Len(IdFieldsV0(p))} \cup (IF p = "paperspace" THEN {"apiKey"} ELSE {})

\* AwsProviderStateV0, AzureProviderStateV0, GcpProviderStateV0,
\* PaperspaceProviderStateV0: every key is optional
ProviderStatesV0(p) ==
    {Restrict(WholeProviderV0(p, provisionArgs), keys \cup {"provisionArgs"}) :
        provisionArgs \in ProvisionArgsV0(p), keys \in SUBSET ProviderKeysV0(p)}
    \cup {Restrict(WholeProviderV0(p, "none"), keys) : keys \in SUBSET ProviderKeysV0(p)}

\* a provider sub-object of provider p with all its keys
ValidProviderStateV0(p) ==
    Restrict(WholeProviderV0(p, [create |-> [instanceType |-> "small"]]),
             ProviderKeysV0(p) \cup {"provisionArgs"})

\* the provider key of InstanceStateV0: one sub-object in any shape, or
\* several whole sub-objects, or none (another key only)
ProvidersV0 ==
    UNION {{[q \in {p} |-> pv] : pv \in ProviderStatesV0(p)} : p \in {"aws", "azure", "gcp", "paperspace"}}
    \cup {[q \in ps |-> ValidProviderStateV0(q)] :
            ps \in {s \in SUBSET {"aws", "azure", "gcp", "paperspace"} : Cardinality(s) >= 2}}
    \cup {[other |-> "x"]}

\* the ssh key of InstanceStateV0: user and privateKeyPath are optional
SshV0 ==
    LET whole == [user |-> "ubuntu", privateKeyPath |-> "/key", port |-> "22"]
    IN  {Restrict(whole, keys \cup {"port"}) : keys \in SUBSET {"user", "privateKeyPath"}}

\* InstanceStateV0 as a state file holds it: host, ssh and provider are
\* optional; no version, or one that is falsy (an empty string); the name in
\* the document is the name of its directory or another
RawStatesV0 ==
    LET whole(name, ssh, provider, host, version) ==
            [name |-> name, host |-> host, ssh |-> ssh, provider |-> provider,
             version |-> version]
    IN  {Restrict(whole(name, ssh, provider, host, ""),
                  ({"name"} \cup keys) \ (IF host = "none" THEN {"host"} ELSE {})) :
            name \in {LoadedName, "renamed"},
            ssh \in SshV0, provider \in ProvidersV0, host \in {"none", "", "1.2.3.4", "5.6.7.8"},
            keys \in {{"host", "ssh", "provider"}, {"host", "provider"}, {"host", "ssh"},
                      {"host", "ssh", "provider", "version"}}}

\* the provision key of a state file with a version: provider and input are
\* there or not, and the provider can be one that is unknown
RawProvisionsV1 ==
    LET whole(provider) == [provider |-> provider, input |-> "inputA", output |-> [host |-> 1]]
    IN  {Restrict(whole(provider), keys) :
            provider \in Providers \cup {"bogus"}, keys \in SUBSET {"provider", "input", "output"}}

\* a state file with a version, "1" or another: name and provision are there or not
RawStatesVersioned ==
    {Restrict([name |-> LoadedName, version |-> version, provision |-> prov], keys \cup {"version"}) :
        version \in {"1", "2"}, prov \in RawProvisionsV1, keys \in SUBSET {"name", "provision"}}

\* what config.yml can hold when loadInstanceState reads it
RawStates == RawStatesV0 \cup RawStatesVersioned

\* a process starts with config.yml of the instance holding any of RawStates
LoadInit ==
    \E rawState \in RawStates :
        /\ state = [name |-> LoadedName]
        /\ dirs = {LoadedName}
        /\ docs = [n \in {LoadedName} |-> rawState]
        /\ pc = Dead
        /\ top = "none"
        /\ autoApprove = FALSE
        /\ trace = <<>>
        /\ result = "none"
        /\ pre = Snapshot
        /\ interruptedAt = Idle
        /\ hist = [last |-> "none", lastOk |-> "none", returned |-> Undefined,
                   persisted |-> Undefined]
        /\ other = NoProcess /\ NoClient /\ NoComponent /\ NoScript

\* the first thing the process does is to load the state
LoadNext == pc = Dead /\ loadInstanceState

LoadSpec == LoadInit /\ [][LoadNext]_vars

\* ------------------------------------------------------------------ claims

\* the state file of the managed instance holds exactly the state in memory
Persisted == instanceExists(state.name) /\ Has(docs, state.name)
                /\ docs[state.name] = DumpState(state)

\* provision() has returned, to the caller or to initialize()
ProvisionReturned ==
    \/ top = "provision" /\ pc = Idle /\ result = "ok"
    \/ top = "initialize" /\ At("configure", "build")

\* provision() has thrown, to the caller or through initialize(): the method
\* ended with an error after it called the Provisioner and nothing else
ProvisionThrew ==
    /\ top \in {"provision", "initialize"}
    /\ pc = Idle
    /\ result # "ok"
    /\ Calls(Collab(trace)) = <<<<"Provisioner", "provision">>>>

\* C1: when provision() returns, state.provision.output is the value the
\* Provisioner returned and the state file holds the whole state in memory
C1_ProvisionStoresAndPersists ==
    ProvisionReturned =>
        /\ state.provision.output = hist.returned
        /\ HasOutput(state)
        /\ Persisted
        /\ LoadResult(state.name).ok
        /\ LoadResult(state.name).state = state

\* a provision() that returned and replaced an earlier, different output
C1_Witness ==
    /\ ProvisionReturned
    /\ HasOutput(pre.state)
    /\ pre.state.provision.output # state.provision.output

\* C2: when provision() throws, the output in memory and the state file are as
\* they were when provision() was called, and provision can be called again
C2_FailedProvisionLeavesState ==
    ProvisionThrew =>
        /\ state.provision.output = pre.state.provision.output
        /\ docs = pre.docs
        /\ ENABLED Begin("provision", "provision", FALSE)

DestroyOrder ==
    <<<<"Provisioner", "destroy">>, <<"StateManager", "persistState">>,
      <<"StateManager", "removeInstanceDir">>>>

\* C4: destroy() calls Provisioner.destroy, then clears the output, then
\* persists the cleared state, and removes the directory only after that
C4_DestroyOrder ==
    top = "destroy" =>
        /\ IsPrefix(Calls(CallsAndWrites(trace)), DestroyOrder)
        /\ (pc.op = "destroy" /\ pc.step \in {"build", "call"}) =>
                state = pre.state /\ dirs = pre.dirs /\ docs = pre.docs
        /\ (pc.op = "destroy" /\ pc.step \in {"persist", "write"}) =>
                /\ ~HasOutput(state)
                /\ Calls(Collab(trace)) = <<<<"Provisioner", "destroy">>>>
                /\ docs = pre.docs
        /\ At("destroy", "flush") =>
                /\ ~HasOutput(state)
                /\ Calls(Collab(trace)) = <<<<"Provisioner", "destroy">>>>
                /\ docs = [n \in DOMAIN pre.docs \cup {state.name} |->
                                IF n = state.name THEN EmptyFile ELSE pre.docs[n]]
        /\ At("destroy", "remove") => ~HasOutput(state) /\ Persisted
        /\ (pc = Idle /\ result = "ok") =>
                /\ Calls(CallsAndWrites(trace)) = DestroyOrder
                /\ ~HasOutput(state)
                /\ ~instanceExists(state.name)
                /\ ~Has(docs, state.name)

\* a destroy() of a provisioned, persisted instance that ran to its end
C4_Witness ==
    /\ top = "destroy"
    /\ pc = Idle
    /\ result = "ok"
    /\ HasOutput(pre.state)
    /\ Has(pre.docs, state.name)
    /\ Calls(CallsAndWrites(trace)) = DestroyOrder

\* a loadInstanceState that follows an interruption of destroy()
LoadedAfterInterruptedDestroy(steps) ==
    /\ top = "loadInstanceState"
    /\ interruptedAt.op = "destroy"
    /\ interruptedAt.step \in steps

CalledWithoutOutput(ops) == top \in ops /\ ~HasOutput(pre.state)

\* C6: configure, start, stop, restart and pair on a state without output throw
\* the error of the Factory's build method, call no collaborator and write nothing
C6_NotProvisionedNoEffect ==
    CalledWithoutOutput({"configure"} \cup RunnerOps) =>
        /\ trace = <<>>
        /\ dirs = pre.dirs
        /\ docs = pre.docs
        /\ state = pre.state
        /\ pc \in {[op |-> top, step |-> "build"], Idle, Dead}
        /\ pc = Idle => result = "NotProvisioned"

\* a start() that threw on a state without output
C6_Witness ==
    /\ CalledWithoutOutput({"start"})
    /\ pc = Idle
    /\ result = "NotProvisioned"

\* the invocation named by top has ended without an error
Succeeded == pc = Idle /\ result = "ok"

\* C7 as stated: configure, start, stop, restart, pair and destroy on a state
\* without output call no collaborator and do not succeed
C7_AllButProvisionRequireOutput ==
    CalledWithoutOutput({"configure", "destroy"} \cup RunnerOps) =>
        Collab(trace) = <<>> /\ ~Succeeded

\* C7 amended: configure, start, stop, restart and pair on a state without
\* output call no collaborator and do not succeed; destroy has no such
\* requirement and calls Provisioner.destroy first
C7_AllButProvisionAndDestroyRequireOutput ==
    /\ CalledWithoutOutput({"configure"} \cup RunnerOps) =>
            Collab(trace) = <<>> /\ ~Succeeded
    /\ (CalledWithoutOutput({"destroy"}) /\ pc = Idle) =>
            /\ Collab(trace) # <<>>
            /\ Calls(trace)[1] = <<"Provisioner", "destroy">>

\* a destroy() of a state without output that ran to its end
C7_Witness ==
    /\ CalledWithoutOutput({"destroy"})
    /\ Succeeded
    /\ Calls(CallsAndWrites(trace)) = DestroyOrder

PairCalled == \E i \in 1..Len(trace) : Calls(trace)[i] = <<"Runner", "pair">>

Answered(answer) == \E i \in 1..Len(trace) : trace[i] = Event("confirm", "prompt", answer)

\* C8 as stated: in initialize(), pair is not called under autoApprove; without
\* autoApprove it is called only after the prompt answered yes, and an
\* initialize() that succeeded has called it exactly when the answer was yes
C8_AutoApproveSkipsPairing ==
    top = "initialize" =>
        /\ autoApprove => ~PairCalled
        /\ ~autoApprove => (PairCalled => Answered("yes"))
        /\ (~autoApprove /\ Succeeded) => (PairCalled <=> Answered("yes"))

\* C8 amended: in initialize(), autoApprove skips the prompt, not the pairing:
\* under autoApprove no prompt is shown and an initialize() that succeeded has
\* called pair; without autoApprove as stated
C8_AutoApproveSkipsPrompt ==
    top = "initialize" =>
        /\ autoApprove => (~Answered("yes") /\ ~Answered("no"))
        /\ (autoApprove /\ Succeeded) => PairCalled
        /\ ~autoApprove => (PairCalled => Answered("yes"))
        /\ (~autoApprove /\ Succeeded) =>
                /\ PairCalled <=> Answered("yes")
                /\ Answered("yes") \/ Answered("no")

\* an initialize() under autoApprove that succeeded and paired
C8_Witness ==
    /\ top = "initialize"
    /\ autoApprove
    /\ Succeeded
    /\ PairCalled

\* the order of the collaborator calls of initialize()
InitializeOrder ==
    <<<<"Provisioner", "provision">>, <<"Configurator", "configure">>, <<"Runner", "pair">>>>

\* the calls and writes of an initialize() that pairs, directory creation and prompt aside
InitializeCallsAndWrites ==
    <<<<"Provisioner", "provision">>, <<"StateManager", "persistState">>,
      <<"Configurator", "configure">>, <<"StateManager", "persistState">>,
      <<"Runner", "pair">>, <<"StateManager", "persistState">>>>

\* positions in the trace of the calls that threw
Thrown == {i \in 1..Len(trace) : trace[i][3] = "throws"}

C10_InitializeOrderPersisted ==
    top = "initialize" =>
        /\ IsPrefix(Calls(CallsAndWrites(trace)), InitializeCallsAndWrites)
        /\ (pc.op = "configure" /\ pc.step \in {"build", "call"}) =>
                /\ Persisted
                /\ LoadResult(state.name).ok
                /\ LoadResult(state.name).state.provision.output = hist.returned
        /\ (pc.op = "pair" /\ pc.step \in {"build", "call"}) =>
                /\ Persisted
                /\ Len(CallsAndWrites(trace)) = 4

\* an initialize() that ran provision, configure and pair to the end
C10_Witness ==
    /\ top = "initialize"
    /\ Succeeded
    /\ Calls(CallsAndWrites(trace)) = InitializeCallsAndWrites
    /\ ~Has(pre.docs, state.name)

\* the methods that end with persistState() and nothing after it
PersistingOps == {"provision", "configure"} \cup RunnerOps

\* a method of PersistingOps has returned, to the caller or to initialize()
PersistingOpReturned ==
    \/ top \in PersistingOps /\ Succeeded
    \/ top = "initialize" /\ (At("configure", "build") \/ At("initialize", "confirm"))
    \/ top = "initialize" /\ Succeeded /\ PairCalled

\* C11: when provision, configure, start, stop, restart or pair has returned,
\* the state file holds the dump of the state in memory and loadInstanceState
\* gives that state back: the next method begins with nothing held in memory only
C11_ReturnedMeansPersisted ==
    PersistingOpReturned =>
        /\ Persisted
        /\ LoadResult(state.name).ok
        /\ LoadResult(state.name).state = state
        /\ hist.persisted = state

\* a start() that returned on a state whose output was in memory only when it began
C11_Witness ==
    /\ top = "start"
    /\ Succeeded
    /\ Has(pre.docs, state.name)
    /\ DumpState(pre.state) # pre.docs[state.name]
    /\ Persisted

\* C12 as stated: a loadInstanceState that follows an interruption of a method,
\* at whatever step, returns the state that persistState wrote last for the
\* instance (stated for an instance for which a state was written and whose
\* directory was not removed since)
C12_LoadAfterInterruptReturnsLastPersisted ==
    (top = "loadInstanceState" /\ interruptedAt # Idle /\ hist.persisted # Undefined) =>
        /\ result = "ok"
        /\ pc = Idle
        /\ state = hist.persisted

\* the error a method throws when the call of collaborator who has thrown
CollaboratorError(who) ==
    CASE who = "Provisioner" -> "ProvisionerError"
      [] who = "Configurator" -> "ConfiguratorError"
      [] who = "Runner" -> "RunnerError"

\* the collaborator call of the invocation named by top has thrown
CollaboratorThrew == \E i \in 1..Len(Collab(trace)) : Collab(trace)[i][3] = "throws"

\* C13: when the collaborator call of configure, start, stop, restart, pair or
\* destroy throws, the method throws that error and it made no other call; the
\* state in memory, the state files and the directories are as when it began
C13_CollaboratorFailureChangesNothing ==
    (top \in {"configure", "destroy"} \cup RunnerOps /\ CollaboratorThrew) =>
        /\ pc = Idle
        /\ Len(trace) = 1
        /\ result = CollaboratorError(trace[1][1])
        /\ state = pre.state
        /\ docs = pre.docs
        /\ dirs = pre.dirs

\* a destroy() of a provisioned, persisted instance whose Provisioner threw
C13_Witness ==
    /\ top = "destroy"
    /\ pc = Idle
    /\ result = "ProvisionerError"
    /\ HasOutput(state)
    /\ Persisted

\* the calls of a start(), stop(), restart() or pair() that runs to its end,
\* directory creation aside
RunnerOrder(op) == <<<<"Runner", op>>, <<"StateManager", "persistState">>>>

\* C14: start(), stop(), restart() and pair() first build a Runner, then call
\* the Runner method of their own name and no other, once, and after it has
\* returned write the state file, once
C14_RunnerOpCallsItsCapabilityThenPersists ==
    top \in RunnerOps =>
        /\ pc.op \in {top, "none"}
        /\ IsPrefix(Calls(CallsAndWrites(trace)), RunnerOrder(top))
        /\ At(top, "build") => trace = <<>>
        /\ (pc.op = top /\ pc.step \in {"persist", "write", "flush"}) =>
                Collab(trace) = <<Event("Runner", top, "returns")>>
        /\ Succeeded =>
                CallsAndWrites(trace) = <<Event("Runner", top, "returns"),
                                          Event("StateManager", "persistState", "returns")>>

\* a restart() that ran to its end
C14_Witness ==
    /\ top = "restart"
    /\ Succeeded
    /\ trace = <<Event("Runner", "restart", "returns"),
                 Event("StateManager", "persistState", "returns")>>

\* the calls of a configure() that runs to its end, directory creation aside
ConfigureOrder == <<<<"Configurator", "configure">>, <<"StateManager", "persistState">>>>

\* C15: configure() on a state with output calls the Configurator and then
\* writes the state file; it leaves the state in memory as it was, and when it
\* has returned the output in the state file is the output the state had when
\* configure() was called
C15_ConfigureKeepsOutput ==
    (top = "configure" /\ HasOutput(pre.state)) =>
        /\ IsPrefix(Calls(CallsAndWrites(trace)), ConfigureOrder)
        /\ state = pre.state
        /\ Succeeded =>
            /\ CallsAndWrites(trace) = <<Event("Configurator", "configure", "returns"),
                                         Event("StateManager", "persistState", "returns")>>
            /\ Has(docs, state.name)
            /\ Has(docs[state.name].provision, "output")
            /\ docs[state.name].provision.output = pre.state.provision.output
            /\ LoadResult(state.name).state.provision.output = pre.state.provision.output

\* a configure() that ran to its end on a provisioned, persisted state
C15_Witness ==
    /\ top = "configure"
    /\ Succeeded
    /\ HasOutput(pre.state)
    /\ Has(pre.docs, state.name)
    /\ pre.docs[state.name] = DumpState(pre.state)
    /\ Calls(CallsAndWrites(trace)) = ConfigureOrder

\* listInstances() on the disk as it was when the invocation named by top began
ListedBefore == {n \in pre.dirs : Has(pre.docs, n)}

\* C16: when destroy() has returned, the state has no output, the directory of
\* the instance does not exist, and listInstances() gives the names it gave
\* before without the name of the instance
C16_DestroyedInstanceIsGone ==
    (top = "destroy" /\ Succeeded) =>
        /\ ~HasOutput(state)
        /\ ~instanceExists(state.name)
        /\ state.name \notin listInstances
        /\ listInstances = ListedBefore \ {state.name}
        /\ LoadResult(state.name) = LoadError("InstanceNotFound", "")

\* a destroy() that returned for a listed instance, with another instance in the store
C16_Witness ==
    /\ top = "destroy"
    /\ Succeeded
    /\ state.name \in ListedBefore
    /\ listInstances # {}

\* the directory of instance n, or the state file in it, is on disk before the
\* step and is not after it
Removed(n) == (n \in dirs /\ n \notin dirs') \/ (Has(docs, n) /\ ~Has(docs', n))

CollaboratorOf(op) ==
    CASE op = "provision" -> <<"Provisioner", "provision">>
      [] op = "destroy" -> <<"Provisioner", "destroy">>
      [] op = "configure" -> <<"Configurator", "configure">>
      [] op \in RunnerOps -> <<"Runner", op>>

\* C18: one invocation of provision, configure, start, stop, restart, pair or
\* destroy calls its collaborator method at most once and no other; when that
\* call throws it is the last call of the invocation, which ends there; an
\* initialize() calls each collaborator method at most once
C18_NoRetry ==
    /\ top \in Operations \ {"initialize"} =>
            /\ Len(Collab(trace)) <= 1
            /\ \A i \in 1..Len(Collab(trace)) : Calls(Collab(trace))[i] = CollaboratorOf(top)
            /\ CollaboratorThrew => (pc = Idle /\ Len(trace) = 1 /\ result # "ok")
    /\ top = "initialize" =>
            \A i, j \in 1..Len(Collab(trace)) :
                Calls(Collab(trace))[i] = Calls(Collab(trace))[j] => i = j

\* a configure() whose Configurator threw: one call, and the method has ended
C18_Witness ==
    /\ top = "configure"
    /\ pc = Idle
    /\ trace = <<Event("Configurator", "configure", "throws")>>

\* the current-version states of the model, with and without output
StatesV1 ==
    {[NewState(n, p, i) EXCEPT !.provision.output = o] :
        n \in Names, p \in Providers, i \in Inputs, o \in Outputs \cup {Undefined}}

\* persistState has just returned: its write is the last call made
JustPersisted ==
    /\ trace # <<>>
    /\ trace[Len(trace)] = Event("StateManager", "persistState", "returns")

\* C19: for every current-version state s, the document persistState(s) writes
\* is loaded back as s; when persistState has returned, loadInstanceState gives
\* the state in memory; and whatever was written before, while the state file
\* has content loadInstanceState gives the state of the last persistState
C19_PersistLoadRoundTrip ==
    /\ \A s \in StatesV1 : ensureStateV1(yamlLoad(DumpState(s))) = [ok |-> TRUE, state |-> s]
    /\ state \in StatesV1
    /\ JustPersisted => LoadResult(state.name) = [ok |-> TRUE, state |-> state]
    /\ (Has(docs, state.name) /\ docs[state.name] # EmptyFile) =>
            LoadResult(state.name) = [ok |-> TRUE, state |-> hist.persisted]
    /\ (top = "loadInstanceState" /\ result = "ok") => state = hist.persisted

\* loadInstanceState, called after a method that ended, has returned a state
\* with output that is the state in memory and the state persisted last
C19_Witness ==
    /\ top = "loadInstanceState"
    /\ result = "ok"
    /\ interruptedAt = Idle
    /\ state.provision.output = [host |-> 2]
    /\ pre.state = state
    /\ hist.persisted = state

\* the keys of provision in the document of a state
ProvisionKeys(s) == {"provider", "input"} \cup (IF HasOutput(s) THEN {"output"} ELSE {})

\* C20: when persistState has returned, the directory of the instance exists,
\* created by it when it was not there, and the state file is the dump of the
\* state passed in and nothing else: a state without output leaves no output
\* key, whatever the file held before; directories and state files of other
\* instances are as they were
C20_PersistCreatesDirAndOverwrites ==
    JustPersisted =>
        /\ instanceExists(state.name)
        /\ dirs = pre.dirs \cup {state.name}
        /\ (Event("StateManager", "mkdir", "returns") \in {trace[i] : i \in 1..Len(trace)})
                <=> state.name \notin pre.dirs
        /\ DOMAIN docs = DOMAIN pre.docs \cup {state.name}
        /\ docs[state.name] = DumpState(state)
        /\ DOMAIN docs[state.name] = {"name", "version", "provision"}
        /\ DOMAIN docs[state.name].provision = ProvisionKeys(state)
        /\ ~HasOutput(state) => ~Has(docs[state.name].provision, "output")
        /\ \A n \in DOMAIN docs \ {state.name} : docs[n] = pre.docs[n]

\* persistState has written a state without output over a document with output
C20_Witness ==
    /\ JustPersisted
    /\ At("destroy", "remove")
    /\ Has(pre.docs, state.name)
    /\ Has(pre.docs[state.name].provision, "output")
    /\ ~Has(docs[state.name].provision, "output")

\* C21 as stated: loadInstanceState throws the instance-not-found error
\* whenever no state file is there for the name, and else returns the state
C21_NoDocumentMeansNotFound ==
    top = "loadInstanceState" =>
        /\ ~Has(docs, state.name) => result = "InstanceNotFound"
        /\ Has(docs, state.name) => result = "ok"

\* C22: listInstances() gives exactly the names whose directory holds a state
\* file, so that a directory without one is left out and a listed instance can
\* be loaded unless its file is empty, and gives the empty set when the
\* instances directory cannot be read
C22_ListInstancesListsDocuments ==
    /\ listInstancesCaught(FALSE) = {n \in Names : instanceExists(n) /\ Has(docs, n)}
    /\ \A n \in dirs : ~Has(docs, n) => n \notin listInstancesCaught(FALSE)
    /\ \A n \in Names : n \in listInstancesCaught(FALSE) => LoadResult(n).ok \/ docs[n] = EmptyFile
    /\ listInstancesCaught(TRUE) = {}

\* a directory without state file next to an instance that is listed
C22_Witness ==
    /\ \E n \in dirs : ~Has(docs, n)
    /\ listInstancesCaught(FALSE) # {}
    /\ listInstancesCaught(FALSE) # dirs

\* the state file that the process reads, parsed
RawState == yamlLoad(docs[LoadedName])

\* loadInstanceState has returned a state
Loaded == top = "loadInstanceState" /\ result = "ok" /\ pc = Idle

\* C23: ensureStateV1 gives every current-version state back from its dump, and
\* gives back as it is every state it has returned: for a state file it
\* accepts, legacy or current, a second call on the result changes nothing
C23_MigrationIdempotent ==
    /\ \A s \in StatesV1 : ensureStateV1(yamlLoad(DumpState(s))).state = s
    /\ ensureStateV1(RawState).ok =>
            ensureStateV1(ensureStateV1(RawState).state) = ensureStateV1(RawState)
    /\ Loaded => ensureStateV1(state) = [ok |-> TRUE, state |-> state]

\* a legacy state file was loaded and transformed
C23_Witness ==
    /\ Loaded
    /\ ~Has(RawState, "version")
    /\ state # RawState
    /\ state.version = "1"

\* C24: a load, and the ensureStateV1 call in it, leaves the document it reads
\* as it was: whether the state file is legacy or current, accepted or
\* rejected, the file and the instance directories are the same after the call
C24_LoadLeavesDocument ==
    top = "loadInstanceState" => docs = pre.docs /\ dirs = pre.dirs

\* a legacy state file was transformed into a state that differs from it, and
\* the file still holds the legacy document
C24_Witness ==
    /\ Loaded
    /\ ~Has(docs[LoadedName], "version")
    /\ state # yamlLoad(pre.docs[LoadedName])
    /\ docs[LoadedName] = pre.docs[LoadedName]

\* the state file declares the current version
DeclaresVersionV1(d) == Truthy(d, "version") /\ d.version = "1"

\* name, provision, provision.provider and provision.input of a document
\* are there, and the provider is one of the closed set
RequiredFieldsV1(d) ==
    /\ Has(d, "name")
    /\ Has(d, "provision")
    /\ Has(d.provision, "provider")
    /\ d.provision.provider \in Providers
    /\ Has(d.provision, "input")

\* C25: a state file that declares version "1" is validated by the load: it
\* fails with a schema validation error when name, provision,
\* provision.provider or provision.input is absent or malformed, and otherwise
\* the document is returned unchanged
C25_CurrentVersionValidated ==
    (top = "loadInstanceState" /\ DeclaresVersionV1(RawState)) =>
        IF RequiredFieldsV1(RawState)
        THEN result = "ok" /\ state = RawState
        ELSE result = "SchemaValidationError"

\* C26: a state file that declares a version other than "1" makes the load
\* fail with the unknown-version error, and no state is returned
C26_UnrecognizedVersionRejected ==
    (top = "loadInstanceState" /\ Has(RawState, "version") /\ RawState.version # "1") =>
        result = "UnknownVersion" /\ state = pre.state

\* the provider sub-objects that a legacy document holds
PopulatedProviders(d) ==
    IF Has(d, "provider")
    THEN {p \in {"aws", "azure", "gcp", "paperspace"} : Has(d.provider, p)}
    ELSE {}

\* C27: a state file with no version in which no provider sub-object, or more
\* than one, is populated makes the load fail with the unknown-provider error
C27_NotOneProviderRejected ==
    (top = "loadInstanceState" /\ ~Has(RawState, "version")
        /\ Cardinality(PopulatedProviders(RawState)) # 1) =>
            result = "UnknownProvider"

\* a legacy document with exactly one populated provider, p, and every field
\* that the migration requires of it
ValidStateV0(d, p) ==
    /\ ~Has(d, "version")
    /\ Truthy(d, "host")
    /\ Has(d, "ssh") /\ Truthy(d.ssh, "user") /\ Truthy(d.ssh, "privateKeyPath")
    /\ PopulatedProviders(d) = {p}
    /\ Has(d.provider[p], "provisionArgs")
    /\ Has(d.provider[p].provisionArgs, "create")
    /\ \A i \in 1..Len(IdFieldsV0(p)) : Truthy(d.provider[p], IdFieldsV0(p)[i])
    /\ p = "paperspace" =>
            Truthy(d.provider[p], "apiKey") \/ Truthy(d.provider[p].provisionArgs, "apiKey")

\* C28: the load of a valid legacy state file with exactly one populated
\* provider succeeds with a version "1" state that has the name of the
\* document, that provider, the legacy host as output host and the legacy
\* identifying fields of the provider in the output
C28_ValidLegacyMigrated ==
    \A p \in {"aws", "azure", "gcp", "paperspace"} :
        (top = "loadInstanceState" /\ ValidStateV0(RawState, p)) =>
            /\ result = "ok"
            /\ state.version = "1"
            /\ state.name = RawState.name
            /\ state.provision.provider = p
            /\ state.provision.output.host = RawState.host
            /\ \A i \in 1..Len(IdFieldsV0(p)) :
                    /\ Has(state.provision.output, IdFieldsV0(p)[i])
                    /\ state.provision.output[IdFieldsV0(p)[i]] = RawState.provider[p][IdFieldsV0(p)[i]]

\* a valid legacy file of a provider with two identifying fields was loaded,
\* under a name that is not the one of its directory
C28_Witness ==
    /\ Loaded
    /\ \E p \in {"aws", "azure", "gcp", "paperspace"} :
            ValidStateV0(RawState, p) /\ Len(IdFieldsV0(p)) = 2
    /\ state.name # LoadedName
    /\ state.provision.output.host = "5.6.7.8"

\* C29: every state that a load returns has version "1", a provider of the
\* closed set and a provision.input, the key that the factory hands to the
\* builders; for a legacy state file the input holds the create arguments of
\* the provider sub-object and the ssh user and key path
C29_LoadedStateWellFormed ==
    Loaded =>
        /\ Truthy(state, "version") /\ state.version = "1"
        /\ Has(state, "provision")
        /\ Has(state.provision, "provider")
        /\ state.provision.provider \in Providers \cup {"azure", "gcp"}
        /\ Has(state.provision, "input")
        /\ \A p \in {"aws", "azure", "gcp", "paperspace"} :
                ValidStateV0(RawState, p) =>
                    /\ \A k \in DOMAIN RawState.provider[p].provisionArgs.create :
                            /\ Has(state.provision.input, k)
                            /\ state.provision.input[k] = RawState.provider[p].provisionArgs.create[k]
                    /\ Has(state.provision.input, "ssh")
                    /\ state.provision.input.ssh =
                            [user |-> RawState.ssh.user, privateKeyPath |-> RawState.ssh.privateKeyPath]

\* what a legacy document with the provider sub-object p lacks of: the host,
\* the ssh configuration (user or key path), the provision arguments (with
\* create) and the identifying fields of p
MissingFieldsV0(d, p) ==
    (IF Truthy(d, "host") THEN {} ELSE {"host"})
    \cup (IF Has(d, "ssh") /\ Truthy(d.ssh, "user") /\ Truthy(d.ssh, "privateKeyPath")
          THEN {} ELSE {"ssh"})
    \cup (IF Has(d.provider[p], "provisionArgs") /\ Has(d.provider[p].provisionArgs, "create")
          THEN {} ELSE {"provisionArgs"})
    \cup {IdFieldsV0(p)[i] : i \in {i \in 1..Len(IdFieldsV0(p)) : ~Truthy(d.provider[p], IdFieldsV0(p)[i])}}

\* the error that ensureStateV1 throws for the lack of a field
ErrorOfFieldV0(field) ==
    CASE field = "host" -> "MissingHost"
      [] field = "ssh" -> "MissingSshConfig"
      [] field = "provisionArgs" -> "MissingProvisionArgs"
      [] OTHER -> "MissingProviderField"

\* C30: the load of a state file with no version that names one provider and
\* lacks the host, the ssh user or key path, provisionArgs.create of the
\* provider or an identifying field of the provider fails with the migration
\* error of one of the fields that are missing (the ssh error stands for user
\* and key path alike), and no state is returned
C30_IncompleteLegacyRejected ==
    \A p \in {"aws", "azure", "gcp", "paperspace"} :
        (/\ top = "loadInstanceState"
         /\ ~Has(RawState, "version")
         /\ PopulatedProviders(RawState) = {p}
         /\ MissingFieldsV0(RawState, p) # {}) =>
            /\ ~ensureStateV1(RawState).ok
            /\ ensureStateV1(RawState).field \in MissingFieldsV0(RawState, p)
            /\ result = ErrorOfFieldV0(ensureStateV1(RawState).field)
            /\ state = pre.state
            /\ pc = Dead

\* a legacy file with host and ssh configuration whose provider lacks its
\* second identifying field only was rejected for that field
C30_Witness ==
    /\ top = "loadInstanceState"
    /\ result = "MissingProviderField"
    /\ PopulatedProviders(RawState) = {"azure"}
    /\ MissingFieldsV0(RawState, "azure") = {"resourceGroupName"}
    /\ state = pre.state

\* a step of a method of the manager, from its call to its return or throw
\* (a step that is not a load of the state file)
OperationStep == pc.step \notin {"idle", "dead"} \/ pc'.step \notin {"idle", "dead"}

\* C32: no step of a method of the manager changes the name, the version, the
\* provider or the input of the state, nor the keys the state has: the output
\* is all that a method assigns
C32_OnlyOutputChanges ==
    [][OperationStep =>
            /\ state'.name = state.name
            /\ state'.version = state.version
            /\ state'.provision.provider = state.provision.provider
            /\ state'.provision.input = state.provision.input
            /\ DOMAIN state' = DOMAIN state
            /\ DOMAIN state'.provision = DOMAIN state.provision]_vars

\* provision() has returned with a new output in the state, name, provider
\* and input being those of the call
C32_Witness ==
    /\ top = "provision" /\ pc = Idle /\ result = "ok"
    /\ state.provision.output # pre.state.provision.output
    /\ state.name = pre.state.name
    /\ state.provision.provider = pre.state.provision.provider
    /\ state.provision.input = pre.state.provision.input

\* C33: whatever the store was left in, by a persistState or a destroy that
\* returned, threw or was interrupted, every instance directory holds a state
\* file that can be read: instanceExists(name) is true exactly for the names
\* that listInstances() gives, and a load of such a name finds a document
C33_EveryDirectoryHoldsDocument ==
    \A n \in Names :
        /\ instanceExists(n) <=> n \in listInstancesCaught(FALSE)
        /\ instanceExists(n) => Has(docs, n) /\ docs[n] # EmptyFile

\* the complete states that the two processes have passed to persistState so
\* far, and the state that was persisted when they began
PassedToPersist ==
    LET passed(ctx) ==
            IF ctx.pc.step \in {"persist", "write", "flush", "remove"}
                \/ (ctx.pc = Idle /\ ctx.top # "none")
            THEN {ctx.state} ELSE {}
        began(ctx) == IF ctx.top = "none" THEN ctx.state ELSE ctx.pre.state
    IN  passed(Context(0)) \cup passed(other) \cup {began(Context(0)), began(other)}

\* C31: while two processes run methods of the manager on the same instance,
\* the state file, at every point at which it is there, holds the whole
\* document of one state: one that a process has passed to persistState, or
\* the one persisted before; never a part of one, nor parts of two
C31_LastWriterWins ==
    (other # NoProcess /\ Has(docs, SharedName)) =>
        \E s \in PassedToPersist : docs[SharedName] = DumpState(s)

\* the positions, among the requests of call c, of those for what, in phase
Requests(c, what, phase) ==
    {i \in 1..Len(engine[c]) : engine[c][i].what = what /\ engine[c][i].phase = phase}

\* every request i of the set is after some request of the set before
Preceded(is, before) == \A i \in is : \E j \in before : j < i

\* C34: in every call of up, preview and destroy, the engine operation (up,
\* preview, refresh, stack destroy) starts only after the cancel of the same
\* call has returned, a cancel is issued by every call that gets as far as
\* its operation, and the stack destroy starts only after the refresh of the
\* same call has returned
C34_CancelBeforeEngineOperation ==
    \A c \in 1..Len(calls) :
        /\ \A what \in EngineOps :
                Preceded(Requests(c, what, "starts"), Requests(c, "cancel", "returns"))
        /\ Preceded(Requests(c, "destroy", "starts"), Requests(c, "refresh", "returns"))
        /\ Preceded(Requests(c, "refresh", "starts"), Requests(c, "cancel", "returns"))
        /\ calls[c].step \in EngineOps \cup {"outputs", "done"} =>
                Cardinality(Requests(c, "cancel", "starts")) = 1
        /\ \A what \in EngineOps : Requests(c, what, "starts") # {} =>
                what = calls[c].method \/ (calls[c].method = "destroy" /\ what = "refresh")

\* an up and a destroy on one client have both returned, each with its
\* cancel and its engine operations among its requests
C34_Witness ==
    /\ Len(calls) = 2
    /\ calls[1].method = "up" /\ calls[1].step = "done"
    /\ calls[2].method = "destroy" /\ calls[2].step = "done"
    /\ Requests(1, "cancel", "returns") # {} /\ Requests(1, "up", "returns") # {}
    /\ Requests(2, "cancel", "returns") # {} /\ Requests(2, "refresh", "returns") # {}
    /\ Requests(2, "destroy", "returns") # {}

\* the Stack objects that the calls have been given by getStack
StacksInUse == {calls[c].stack : c \in {c \in 1..Len(calls) : calls[c].stack # Undefined}}

\* C35: one client's stack is initialized (createOrSelectStack returns a
\* Stack) at most once, whatever calls of up, preview and destroy are made
\* and however they overlap, and every call works on that one Stack object
C35_StackInitializedOnce ==
    /\ created <= 1
    /\ Cardinality(StacksInUse) <= 1

\* the component has been constructed from arguments with dns
ConstructedWithDns == component # Undefined /\ Has(args, "dns")

\* C36: with dns passed, the constructor succeeds when at least one of
\* dns.zoneId and dns.zoneName is set and throws only when neither is; with
\* dns not passed it makes no DNS check, so does not throw
C36_DnsNeedsOneOfZoneIdZoneName ==
    /\ ConstructedWithDns =>
        /\ (Truthy(args.dns, "zoneId") \/ Truthy(args.dns, "zoneName")) => ~component.threw
        /\ component.threw => ~Truthy(args.dns, "zoneId") /\ ~Truthy(args.dns, "zoneName")
    /\ (component # Undefined /\ ~Has(args, "dns")) => ~component.threw

\* the positions in `effects` of the effects named
Effects(whats) == {i \in 1..Len(effects) : effects[i].what \in whats}

Written == Effects({"mkdir -p", "init_ansible_inventory"})

\* the function has ended with `exit n`
Exited(n) == script.step = "exited" /\ script.exit.code = n

\* the effect at position i is the last thing the function did
Last(i) == i = Len(effects)

\* C37: in init_paperspace the instance directory and the inventory are
\* written only after y or Y was read at the final confirmation; the creation
\* request is sent only after y or Y was read at "Continue?", any other answer
\* exits 8 with nothing sent; the function goes past the creation only with a
\* machine id that is neither empty nor null, and exits 1 otherwise; a choice
\* that is unknown exits 5 and an empty machine list exits 7, with no
\* directory and no inventory written
C37_InitPaperspaceOrder ==
    /\ \A w \in Written :
        \E r \in Effects({"read Do you want to continue?"}) : r < w /\ effects[r].value \in Yes
    /\ \A p \in Effects({"POST /v1/machines"}) :
        \E r \in Effects({"read Continue?"}) : r < p /\ effects[r].value \in Yes
    /\ \A r \in Effects({"read Continue?"}) :
        effects[r].value \notin Yes => Last(r) /\ Exited(8)
    /\ \A p \in Effects({"POST /v1/machines"}) :
        effects[p].value \in {"", "null"} =>
            /\ Last(p)
            /\ script.step \in {"checkMachineId", "exited"}
            /\ script.step = "exited" => Exited(1)
    /\ (script.choice \notin {UseExisting, Create} /\ script.step \notin {"start", "login", "case"}) =>
        /\ script.step = "exited"
        /\ Written = {}
        /\ script.exit.line # 15 => Exited(5)
    /\ \A l \in Effects({"pspace machine list"}) :
        effects[l].value = <<>> => Last(l) /\ Exited(7) /\ Written = {}

\* a machine was created and the function returned, having written the
\* directory and the inventory after both confirmations
C37_Witness ==
    /\ script.step = "returned" /\ script.choice = Create
    /\ Effects({"POST /v1/machines"}) # {}
    /\ Cardinality(Written) = 2

====
